---- MODULE Spec2Model ----
(***************************************************************************)
(* A model of the radial-velocity cross-correlation code of radvel/rv.py:  *)
(* the correlator ccorrelate as an exactly computed function, and the      *)
(* orchestrators specxcorr and apxcorr as statement-level state machines.  *)
(*                                                                         *)
(* Numbers.  A pixel value is a record [fin, v]: a finite value v, an      *)
(* integer in a fixed unit (hundredths), or a non-finite value (NaN).      *)
(* A correlation value is kept exactly as n / (d * sqrt(rx * ry)), the     *)
(* four integers the code's sums produce, and is compared by cross         *)
(* multiplication on arbitrary-precision naturals (BN...).                 *)
(***************************************************************************)
EXTENDS Integers, Sequences, FiniteSets, TLC

VARIABLES
    cx, cy, clag,   \* ccorrelate: the arguments x, y, lag of the call
    cpc,            \* ccorrelate: "idle" | "call" | "done"
    cres,           \* ccorrelate: what the call produced
    build,          \* the interpreter the module runs under: "py2" | "py3"
    helpers,        \* whether the names size and reform, which rv.py uses and
                    \* does not define, are bound in the module's namespace
    tempspec,       \* the caller's template array, shared by the invocations
    tempspec0,      \* its value before any invocation started
    fn,             \* per invocation: "off" | "specxcorr" | "apxcorr"
    maxlag, nofit,  \* per invocation: the arguments maxlag and nofit
    obsspec, obserr,    \* per invocation: the caller's observed spectra and errors
    obsspec0, obserr0,  \* their values before the call
    outstrArg,      \* per invocation: the outstr the caller handed to apxcorr
    pc,             \* per invocation: the statement the invocation is at
    loc,            \* per invocation: the local variables of the function
    result,         \* per invocation: what the call returned or raised
    writers,        \* the invocations that have changed an element of tempspec
    dirty,          \* per invocation: it has read tempspec after another
                    \* invocation changed an element of it
    nin,            \* normspec: the spectrum and the keywords of the call
    npc,            \* normspec: the statement the call is at
    nloc,           \* normspec: the local variables of the call
    nres,           \* normspec: what the call returned or raised
    vin,            \* velocity conversion: the fitted shift, the fit covariance
                    \* and the wavelength grid it is applied to
    vres,           \* velocity conversion: what the block of each function set
    fin,            \* peak fitter: the function it belongs to, the lag axis and
                    \* what it reads of the correlation function
    fpc,            \* peak fitter: the statement it is at
    floc            \* peak fitter: its local variables and the calls of gaussfit

corrVars == <<cx, cy, clag, cpc, cres>>
envVars == <<build, helpers>>
callerVars == <<tempspec, tempspec0, obsspec, obserr, obsspec0, obserr0, outstrArg>>
orchVars == <<envVars, callerVars, fn, maxlag, nofit, pc, loc, result, writers, dirty>>
normVars == <<nin, npc, nloc, nres>>
velVars == <<vin, vres>>
fitVars == <<fin, fpc, floc>>
vars == <<corrVars, orchVars, normVars, velVars, fitVars>>

---------------------------------------------------------------------------
(* Bounds of the model *)

\* longest sequence handed to ccorrelate
MaxLen == 3

\* the maxlag argument of the orchestrators
MaxLag == 5

\* the number of pixels of a spectrum is MaxLag + 1: the least number for
\* which every lag of the axis built from maxlag stays within the arrays
NPix == MaxLag + 1

\* the largest number of observed spectra in a two-dimensional obsspec
MaxSpec == 2

---------------------------------------------------------------------------
(* Values *)

Fin(v) == [fin |-> TRUE, v |-> v]
NaN == [fin |-> FALSE, v |-> 0]

\* the values an element of a bounded input sequence may take
Elem == {NaN, Fin(1), Fin(2)}

RECURSIVE SeqsOfLen(_, _)
SeqsOfLen(S, n) ==
    IF n = 0 THEN {<<>>}
    ELSE {Append(s, e) : s \in SeqsOfLen(S, n - 1), e \in S}

SeqsUpTo(S, n) == UNION {SeqsOfLen(S, k) : k \in 0..n}

Abs(i) == IF i < 0 THEN -i ELSE i
Sign(i) == IF i < 0 THEN -1 ELSE IF i = 0 THEN 0 ELSE 1

RECURSIVE SumSeq(_)
SumSeq(s) == IF s = <<>> THEN 0 ELSE Head(s) + SumSeq(Tail(s))

RECURSIVE MaxSeq(_)
MaxSeq(s) ==
    IF Len(s) = 1 THEN s[1]
    ELSE LET m == MaxSeq(Tail(s)) IN IF s[1] > m THEN s[1] ELSE m

---------------------------------------------------------------------------
(* Arbitrary-precision naturals: little-endian digit sequences, base 1000, *)
(* no leading zero digit; zero is the empty sequence.                      *)

BNBase == 10 * 10 * 10

RECURSIVE BN(_)
BN(n) == IF n = 0 THEN <<>> ELSE <<n % BNBase>> \o BN(n \div BNBase)

RECURSIVE BNCarry(_, _)
BNCarry(raw, c) ==
    IF raw = <<>> THEN BN(c)
    ELSE LET t == Head(raw) + c
         IN <<t % BNBase>> \o BNCarry(Tail(raw), t \div BNBase)

BNMul(a, b) ==
    IF a = <<>> \/ b = <<>> THEN <<>>
    ELSE LET raw == [k \in 1..(Len(a) + Len(b) - 1) |->
                       SumSeq([i \in 1..Len(a) |->
                           IF k + 1 - i \in 1..Len(b) THEN a[i] * b[k + 1 - i] ELSE 0])]
         IN BNCarry(raw, 0)

RECURSIVE BNLessFrom(_, _, _)
BNLessFrom(a, b, i) ==
    IF i = 0 THEN FALSE
    ELSE IF a[i] # b[i] THEN a[i] < b[i]
    ELSE BNLessFrom(a, b, i - 1)

BNLess(a, b) ==
    IF Len(a) # Len(b) THEN Len(a) < Len(b) ELSE BNLessFrom(a, b, Len(a))

BNLeq(a, b) == a = b \/ BNLess(a, b)

BNSq(a) == BNMul(a, a)

---------------------------------------------------------------------------
(* Correlation values n / (d * sqrt(rx * ry)), d > 0, rx > 0, ry > 0 *)

\* (|n| * k)^2 and (d * k)^2 * rx * ry, the two sides of |value| * k ? 1
ValNumSq(a, k) == BNSq(BNMul(BN(Abs(a.n)), BN(k)))
ValDenSq(a, k) == BNMul(BNSq(BNMul(BN(a.d), BN(k))), BNMul(BN(a.rx), BN(a.ry)))

\* the two values are the same real number
ValEq(a, b) ==
    /\ Sign(a.n) = Sign(b.n)
    /\ BNMul(ValNumSq(a, 1), ValDenSq(b, 1)) = BNMul(ValNumSq(b, 1), ValDenSq(a, 1))

ValIsOne(a) == a.n > 0 /\ ValNumSq(a, 1) = ValDenSq(a, 1)
ValIsZero(a) == a.n = 0

\* the value is the rational p / q  (q > 0)
ValIsRatio(a, p, q) ==
    /\ Sign(a.n) = Sign(p)
    /\ ValNumSq(a, q) = ValDenSq(a, Abs(p))

\* the value, rounded to three decimals, is t / 1000
ValRounds3(a, t) ==
    IF t = 0
    THEN BNLeq(ValNumSq(a, 2000), ValDenSq(a, 1))
    ELSE /\ Sign(a.n) = Sign(t)
         /\ BNLeq(ValDenSq(a, 2 * Abs(t) - 1), ValNumSq(a, 2000))
         /\ BNLeq(ValNumSq(a, 2000), ValDenSq(a, 2 * Abs(t) + 1))

---------------------------------------------------------------------------
(* ccorrelate (rv.py 484-620), called with its defaults: mean removal,     *)
(* correlation mode, no yerr.  x and y are arrays of pixel values, lag a   *)
(* sequence of integers with |lag[k]| < len(x).                            *)

Err(type, msg) == [kind |-> "error", type |-> type, msg |-> msg]

\* nx != len(y)
LengthMismatchBroken(x, y) == FALSE
LengthMismatch(x, y) == Len(x) # Len(y)

\* nx < 2
TooShortBroken(nx) == nx < 1
TooShort(nx) == nx < 2

\* fx = np.isfinite(x); ngdx = np.sum(fx)
IsFinite(x) == [i \in 1..Len(x) |-> x[i].fin]
Ngd(x) == Cardinality({i \in 1..Len(x) : x[i].fin})

\* np.nanmean(x) = NanSum(x) / Ngd(x); every deviation is kept times
\* MeanScale(x), which makes it an integer
NanSum(x) == SumSeq([i \in 1..Len(x) |-> IF x[i].fin THEN x[i].v ELSE 0])
MeanScale(x) == IF Ngd(x) = 0 THEN 1 ELSE Ngd(x)

\* xd = x.copy() - xmn ; xd[fx == False] = 0.0      (times MeanScale(x))
Deviations(x) ==
    [i \in 1..Len(x) |-> IF x[i].fin THEN MeanScale(x) * x[i].v - NanSum(x) ELSE 0]

\* the loop body: cross[k] for one lag (note the reversal for negative lags)
CrossSumNoReversal(xd, yd, nx, l) ==
    IF l > 0
    THEN SumSeq([i \in 1..(nx - l) |-> xd[i] * yd[i + l]])
    ELSE SumSeq([i \in 1..(nx + l) |-> xd[i] * yd[i - l]])
CrossSum(xd, yd, nx, l) ==
    IF l > 0
    THEN SumSeq([i \in 1..(nx - l) |-> xd[i] * yd[i + l]])
    ELSE SumSeq([i \in 1..(nx + l) |-> yd[i] * xd[i - l]])

\* the loop body: num[k], the number of jointly finite pairs at one lag
NumGood(fx, fy, nx, l) ==
    IF l > 0
    THEN Cardinality({i \in 1..(nx - l) : fx[i] /\ fy[i + l]})
    ELSE Cardinality({i \in 1..(nx + l) : fy[i] /\ fx[i - l]})

\* rmsx ** 2 (times MeanScale(x) ** 2): the sum of squares when ngdx > 2,
\* else 1.0; a zero rms is replaced by 1.0
SumSq(xd) == SumSeq([i \in 1..Len(xd) |-> xd[i] * xd[i]])
Rms2AtLeastTwo(x) ==
    IF Ngd(x) >= 2 /\ SumSq(Deviations(x)) # 0
    THEN SumSq(Deviations(x))
    ELSE MeanScale(x) * MeanScale(x)
Rms2(x) ==
    IF Ngd(x) > 2 /\ SumSq(Deviations(x)) # 0
    THEN SumSq(Deviations(x))
    ELSE MeanScale(x) * MeanScale(x)

\* cross *= np.max(num) ; cross[pnum] /= num[pnum] ; cross /= rmsx*rmsy
NormalizedNoReweight(c, numk, maxnum, x, y) ==
    [n |-> c, d |-> 1, rx |-> Rms2(x), ry |-> Rms2(y)]
Normalized(c, numk, maxnum, x, y) ==
    [n |-> c * maxnum, d |-> IF numk > 0 THEN numk ELSE 1,
     rx |-> Rms2(x), ry |-> Rms2(y)]

ccorrelate(x, y, lag) ==
    IF LengthMismatch(x, y)
    THEN Err("ValueError", "X and Y arrays must have the same number of elements.")
    ELSE IF TooShort(Len(x))
    THEN Err("ValueError", "X and Y arrays must contain 2 or more elements.")
    ELSE LET nx == Len(x)
             xd == Deviations(x)
             yd == Deviations(y)
             fx == IsFinite(x)
             fy == IsFinite(y)
             cross == [k \in 1..Len(lag) |-> CrossSum(xd, yd, nx, lag[k])]
             num == [k \in 1..Len(lag) |-> NumGood(fx, fy, nx, lag[k])]
             maxnum == MaxSeq(num)
         IN [kind |-> "ok",
             cross |-> [k \in 1..Len(lag) |->
                          Normalized(cross[k], num[k], maxnum, x, y)]]

---------------------------------------------------------------------------
(* Arrays and records of the orchestrators.  Pixel values are in           *)
(* hundredths; an index set holds the 0-based indices numpy's where()      *)
(* returns.                                                                *)

Workers == {1, 2}

\* spec < 0.01, template < 0.01 (rv.py 1049, 1052, 1322, 1325)
FloorHundredths == 1
BelowFloor(p) == p.fin /\ p.v < FloorHundredths

\* a[below the floor] = np.nan
MaskBelowFloor(a) == [i \in 1..Len(a) |-> IF BelowFloor(a[i]) THEN NaN ELSE a[i]]

RECURSIVE SumSet(_)
SumSet(S) == IF S = {} THEN 0 ELSE LET e == CHOOSE e \in S : TRUE IN e + SumSet(S \ {e})

\* ind, = np.where(np.isfinite(a)) ; n = np.sum(ind): the sum of the indices
FiniteIdx(a) == {i - 1 : i \in {j \in 1..Len(a) : a[j].fin}}
NonZeroIdx(a) == {i - 1 : i \in {j \in 1..Len(a) : ~a[j].fin \/ a[j].v # 0}}
BelowFloorIdx(a) == {i - 1 : i \in {j \in 1..Len(a) : BelowFloor(a[j])}}

\* the k-th smallest element of an index set: gd[k] for a 0-based k
RECURSIVE NthOf(_, _)
NthOf(S, k) ==
    LET m == CHOOSE e \in S : \A f \in S : e <= f
    IN IF k = 0 THEN m ELSE NthOf(S \ {m}, k - 1)

\* nlag = 2*np.round(np.abs(maxlag))+1 ; minlag = -nlag/2 ;
\* lag = np.arange(nlag)*dlag+minlag.  The lags are kept doubled: -nlag/2 is
\* floor division under Python 2 and true division under Python 3.
NLag(m) == 2 * m + 1
LagAxis2(m, b) ==
    LET minlag2 == IF b = "py2" THEN 2 * ((0 - NLag(m)) \div 2) ELSE 0 - NLag(m)
    IN [k \in 1..NLag(m) |-> 2 * (k - 1) + minlag2]
IsIntegerLag(lag2) == \A k \in 1..Len(lag2) : lag2[k] % 2 = 0
HalfLag(lag2) == [k \in 1..Len(lag2) |-> lag2[k] \div 2]

\* ccorrelate called on a lag axis: the length checks come first, then the
\* slices xd[0:nx - lag[k]], which take integers only
CcorrelateAt(x, y, lag2) ==
    IF LengthMismatch(x, y) \/ TooShort(Len(x)) THEN ccorrelate(x, y, <<>>)
    ELSE IF ~IsIntegerLag(lag2)
    THEN Err("TypeError", "slice indices must be integers")
    ELSE ccorrelate(x, y, HalfLag(lag2))

\* the output record of xcorr_dtype: np.zeros, then five fields set to NaN
Zero == [t |-> "zero"]
NaNField == [t |-> "nan"]
Set(x) == [t |-> "set", x |-> x]
InitOutstr ==
    [xshift0 |-> Zero, ccp0 |-> Zero, xshift |-> NaNField, xshifterr |-> NaNField,
     xshift_interp |-> Zero, ccf |-> Zero, ccferr |-> Zero, ccnlag |-> Zero,
     cclag |-> Zero, ccpeak |-> Zero, ccpfwhm |-> Zero, ccp_pars |-> Zero,
     ccp_perror |-> Zero, ccp_polycoef |-> Zero, vrel |-> NaNField,
     vrelerr |-> NaNField, w0 |-> Zero, dw |-> Zero, chisq |-> NaNField]

\* what the caller gets when a statement raises: the exception alone; the
\* function's local variables, the local outstr among them, are gone
RaisedWithRecord(e, outstr) == [e EXCEPT !.kind = "error"] @@ [records |-> <<outstr>>]
Raised(e, outstr) == e

\* comparison of two correlation values of one call (same rx and ry)
ValLess(a, b) == a.n * b.d < b.n * a.d

\* np.median of an odd number of values
MedianOf(c) ==
    LET h == (Len(c) - 1) \div 2
    IN c[CHOOSE m \in 1..Len(c) :
            /\ Cardinality({k \in 1..Len(c) : ValLess(c[k], c[m])}) <= h
            /\ Cardinality({k \in 1..Len(c) : ValLess(c[m], c[k])}) <= h]

\* ccf -= np.median(ccf)
MinusMedian(c) ==
    LET md == MedianOf(c)
    IN [k \in 1..Len(c) |->
          [c[k] EXCEPT !.n = c[k].n * md.d - md.n * c[k].d, !.d = c[k].d * md.d]]

\* np.argmax: the first index of the maximum (1-based here)
ArgMax(c) ==
    CHOOSE m \in 1..Len(c) :
        /\ \A k \in 1..Len(c) : ~ValLess(c[m], c[k])
        /\ \A k \in 1..(m - 1) : ValLess(c[k], c[m])

\* np.roll(a, shift)
Roll(a, shift) ==
    LET n == Len(a) IN [i \in 1..n |-> a[((i - 1 - shift) % n) + 1]]

\* gdpix: finite spectrum and template, spec > 0, err > 0 (err < 1e5 holds
\* of every value of the model)
GoodPix(spec, template, err) ==
    {i - 1 : i \in {j \in 1..Len(spec) :
        /\ spec[j].fin /\ template[j].fin
        /\ spec[j].v > 0 /\ err[j].fin /\ err[j].v > 0}}

\* np.sqrt(np.sum((spec[gdpix]-template[gdpix])**2/err[gdpix]**2)/ngdpix),
\* kept as the pair n, d with chisq = sqrt(n / d); ngdpix is np.sum(gdpix)
RECURSIVE ProdSet(_)
ProdSet(S) == IF S = {} THEN 1 ELSE LET e == CHOOSE e \in S : TRUE IN e * ProdSet(S \ {e})
ChisqOf(spec, template, err, gdpix, ngdpix) ==
    LET e2 == ProdSet({err[i + 1].v * err[i + 1].v : i \in gdpix})
    IN [n |-> SumSeq([j \in 1..Len(spec) |->
                 IF (j - 1) \in gdpix
                 THEN (spec[j].v - template[j].v) * (spec[j].v - template[j].v)
                      * (e2 \div (err[j].v * err[j].v))
                 ELSE 0]),
        d |-> e2 * ngdpix]

\* the local variables of an invocation before its first statement
LocInit ==
    [nspec |-> 0, lag2 |-> <<>>, view |-> FALSE, spec |-> <<>>, err |-> <<>>,
     template |-> <<>>, outstr |-> Zero, gd |-> {}, lo |-> 0, hi |-> 0,
     ccf |-> <<>>, ccferr |-> FALSE, nsumgood |-> 0, best0 |-> 0, temp |-> <<>>,
     fitpass |-> 0 - 1, solver |-> "none"]

Goto(w, label) == pc' = [pc EXCEPT ![w] = label]
SetLoc(w, l) == loc' = [loc EXCEPT ![w] = l]
Return(w, r) == result' = [result EXCEPT ![w] = r] /\ pc' = [pc EXCEPT ![w] = "done"]
Raise(w, e) == Return(w, Raised(e, loc[w].outstr))

\* what does not change during an invocation
staticVars ==
    <<corrVars, normVars, velVars, fitVars, envVars, fn, maxlag, nofit, tempspec0, obsspec0, obserr0,
      outstrArg>>

\* the invocation reads the shared template array
ReadsTemplate(w) ==
    dirty' = [dirty EXCEPT ![w] = @ \/ (tempspec # tempspec0 /\ writers \ {w} # {})]

\* a two-dimensional array as its columns; a one-dimensional one as one column
Array1D(col) == [ndim |-> 1, cols |-> <<col>>]
Array2D(cols) == [ndim |-> 2, cols |-> cols]
MapCols(a, F(_)) == [a EXCEPT !.cols = [k \in 1..Len(a.cols) |-> F(a.cols[k])]]
SetCol(a, k, col) == [a EXCEPT !.cols[k] = col]

---------------------------------------------------------------------------
(* specxcorr (rv.py 962-1211), one action per group of statements *)

\* 1008-1038: nspec, the lag axis, the output record, the private copies
SxSetup(w) ==
    /\ fn[w] = "specxcorr" /\ pc[w] = "start"
    /\ SetLoc(w, [loc[w] EXCEPT
            !.nspec = IF obsspec[w].ndim > 1 THEN Len(obsspec[w].cols) ELSE 1,
            !.lag2 = LagAxis2(maxlag[w], build),
            !.outstr = InitOutstr,
            !.spec = obsspec[w],
            !.err = obserr[w],
            !.template = tempspec])
    /\ Goto(w, "sx_mask")
    /\ ReadsTemplate(w)
    /\ UNCHANGED <<staticVars, tempspec, obsspec, obserr, result, writers>>

\* 1049-1054: the pixels below the floor of the copies become NaN
SxMask(w) ==
    /\ fn[w] = "specxcorr" /\ pc[w] = "sx_mask"
    /\ SetLoc(w, [loc[w] EXCEPT
            !.spec = MapCols(@, MaskBelowFloor),
            !.template = MaskBelowFloor(@)])
    /\ Goto(w, "sx_select")
    /\ UNCHANGED <<staticVars, tempspec, obsspec, obserr, result, writers, dirty>>

\* 1060-1064: indobs, = np.where(...) unpacks one index array, so a
\* two-dimensional spec raises; nindobs and nindtemp are sums of indices
SxSelect(w) ==
    /\ fn[w] = "specxcorr" /\ pc[w] = "sx_select"
    /\ IF loc[w].spec.ndim > 1
       THEN Raise(w, Err("ValueError", "too many values to unpack"))
       ELSE /\ Goto(w, IF /\ SumSet(FiniteIdx(loc[w].spec.cols[1])) > 0
                          /\ SumSet(FiniteIdx(loc[w].template)) > 0
                       THEN "sx_corr" ELSE "sx_nogood")
            /\ UNCHANGED result
    /\ UNCHANGED <<staticVars, tempspec, obsspec, obserr, loc, writers, dirty>>

\* 1070-1082: ccf, ccferr = ccorrelate(template, obsspec, lag, obserr1), on
\* the masked copy of the template and the caller's obsspec
SxCorr(w) ==
    /\ fn[w] = "specxcorr" /\ pc[w] = "sx_corr"
    /\ LET r == CcorrelateAt(loc[w].template, obsspec[w].cols[1], loc[w].lag2)
       IN IF r.kind = "ok"
          THEN /\ SetLoc(w, [loc[w] EXCEPT !.ccf = r.cross, !.ccferr = TRUE])
               /\ Goto(w, "sx_best")
               /\ UNCHANGED result
          ELSE /\ Raise(w, r)
               /\ UNCHANGED loc
    /\ UNCHANGED <<staticVars, tempspec, obsspec, obserr, writers, dirty>>

\* 1084-1086: ccf = np.float(lag)*0.0 converts an array of nlag elements
SxNoGood(w) ==
    /\ fn[w] = "specxcorr" /\ pc[w] = "sx_nogood"
    /\ Raise(w, IF Len(loc[w].lag2) > 1
                THEN Err("TypeError", "only size-1 arrays can be converted to Python scalars")
                ELSE Err("NameError", "name 'nofit' is not defined"))
    /\ UNCHANGED <<staticVars, tempspec, obsspec, obserr, loc, writers, dirty>>

\* 1089-1095: the median removed, the first maximum, the rolled template
SxBest(w) ==
    /\ fn[w] = "specxcorr" /\ pc[w] = "sx_best"
    /\ LET ccf == MinusMedian(loc[w].ccf)
           k == ArgMax(ccf)
       IN SetLoc(w, [loc[w] EXCEPT
            !.ccf = ccf,
            !.best0 = k,
            !.temp = Roll(loc[w].template, HalfLag(loc[w].lag2)[k])])
    /\ Goto(w, "sx_chisq")
    /\ UNCHANGED <<staticVars, tempspec, obsspec, obserr, result, writers, dirty>>

\* 1098-1108: gdpix, ngdpix (a sum of indices), 'Bad spectrum', chisq against
\* the template as it is (temp is not used), then the five fields written
SxChisq(w) ==
    /\ fn[w] = "specxcorr" /\ pc[w] = "sx_chisq"
    /\ LET gdpix == GoodPix(loc[w].spec.cols[1], loc[w].template, loc[w].err.cols[1])
           ngdpix == SumSet(gdpix)
       IN IF ngdpix = 0
          THEN /\ Raise(w, Err("Exception", "Bad spectrum"))
               /\ UNCHANGED loc
          ELSE /\ SetLoc(w, [loc[w] EXCEPT
                    !.outstr = [@ EXCEPT
                        !.chisq = Set(ChisqOf(loc[w].spec.cols[1], loc[w].template,
                                              loc[w].err.cols[1], gdpix, ngdpix)),
                        !.ccf = Set(loc[w].ccf),
                        !.ccferr = Set("ccferr"),
                        !.ccnlag = Set(Len(loc[w].lag2)),
                        !.cclag = Set(loc[w].lag2)],
                    !.fitpass = 0])
               /\ Goto(w, "sx_fit")
               /\ UNCHANGED result
    /\ UNCHANGED <<staticVars, tempspec, obsspec, obserr, writers, dirty>>

\* estimates0 = [.., best_xshift0, 4.0, 0.0], ubounds0 = [.., np.max(lag), ..]:
\* the seed of sigma lies within its bounds only when 4.0 <= max(lag)
SeedSigma == 4
Pass0Feasible(lag2) == 2 * SeedSigma <= MaxSeq(lag2)

\* the passes: 0..3 are the four fits, 4 the refit of the safeguard
LastPass == 3
SafeguardPass == LastPass + 1

\* 1125-1172, gaussfit 109-116: curve_fit returns the parameters of a pass.
\* After pass 3 the safeguard refit runs when perror3[0] or perror3[1]
\* exceeds 10, which depends on the fitted values.
SxFitConverged(w) ==
    /\ fn[w] = "specxcorr" /\ pc[w] = "sx_fit"
    /\ loc[w].fitpass = 0 => Pass0Feasible(loc[w].lag2)
    /\ \E wide \in BOOLEAN :
        IF loc[w].fitpass < LastPass \/ (loc[w].fitpass = LastPass /\ wide)
        THEN /\ SetLoc(w, [loc[w] EXCEPT !.fitpass = @ + 1])
             /\ UNCHANGED pc
        ELSE /\ Goto(w, "sx_final")
             /\ UNCHANGED loc
    /\ UNCHANGED <<staticVars, tempspec, obsspec, obserr, result, writers, dirty>>

\* curve_fit raises RuntimeError when least_squares does not converge; the
\* exception is not caught by gaussfit or by specxcorr
SxFitNotConverged(w) ==
    /\ fn[w] = "specxcorr" /\ pc[w] = "sx_fit"
    /\ loc[w].fitpass = 0 => Pass0Feasible(loc[w].lag2)
    /\ SetLoc(w, [loc[w] EXCEPT !.solver = "not converged"])
    /\ Raise(w, Err("RuntimeError", "Optimal parameters not found"))
    /\ UNCHANGED <<staticVars, tempspec, obsspec, obserr, writers, dirty>>

\* curve_fit raises ValueError when the seed lies outside the bounds or a
\* lower bound is not below its upper bound
SxFitInfeasible(w) ==
    /\ fn[w] = "specxcorr" /\ pc[w] = "sx_fit"
    /\ SetLoc(w, [loc[w] EXCEPT !.solver = "infeasible"])
    /\ Raise(w, Err("ValueError", "x0 is infeasible"))
    /\ UNCHANGED <<staticVars, tempspec, obsspec, obserr, writers, dirty>>

\* 1174-1211: the fitted values written into the record, which is returned
SxFinal(w) ==
    /\ fn[w] = "specxcorr" /\ pc[w] = "sx_final"
    /\ LET out == [loc[w].outstr EXCEPT
                     !.xshift0 = Set("best_xshift"), !.ccp0 = Set("max(ccf)"),
                     !.xshift = Set("pars[1]"), !.xshifterr = Set("perror[1]"),
                     !.ccpeak = Set("pars[0]"), !.ccpfwhm = Set("ccpfwhm"),
                     !.ccp_pars = Set("pars"), !.ccp_perror = Set("perror"),
                     !.vrel = Set("vrel"), !.vrelerr = Set("vrelerr"),
                     !.w0 = Set("min(wave)"), !.dw = Set("dwlog")]
       IN /\ SetLoc(w, [loc[w] EXCEPT !.outstr = out])
          /\ Return(w, [kind |-> "ok", records |-> <<out>>])
    /\ UNCHANGED <<staticVars, tempspec, obsspec, obserr, writers, dirty>>

---------------------------------------------------------------------------
(* apxcorr (rv.py 1214-1512), one action per group of statements.  The     *)
(* statements after line 1387 are never reached: see AxAvg.                *)

\* 1263: sz = size(obsspec), with no size bound in the namespace
AxNameError(w) ==
    /\ fn[w] = "apxcorr" /\ pc[w] = "start"
    /\ ~helpers
    /\ Raise(w, Err("NameError", "name 'size' is not defined"))
    /\ UNCHANGED <<staticVars, tempspec, obsspec, obserr, loc, writers, dirty>>

\* 1263-1281 with size bound to IDL's size: sz[0] the number of dimensions,
\* nspec the number of spectra of a two-dimensional obsspec; the lag axis
AxSize(w) ==
    /\ fn[w] = "apxcorr" /\ pc[w] = "start"
    /\ helpers
    /\ SetLoc(w, [loc[w] EXCEPT
            !.nspec = IF obsspec[w].ndim = 2 THEN Len(obsspec[w].cols) ELSE 1,
            !.lag2 = LagAxis2(maxlag[w], build)])
    /\ Goto(w, "ax_view")
    /\ UNCHANGED <<staticVars, tempspec, obsspec, obserr, result, writers, dirty>>

\* 1286-1307, i = 0, ichip = 0: spec = obsspec[:,0] and err = obserr[:,0]
\* are views of the caller's arrays and template is tempspec itself
AxView(w) ==
    /\ fn[w] = "apxcorr" /\ pc[w] = "ax_view"
    /\ IF obsspec[w].ndim = 1
       THEN /\ Raise(w, Err("IndexError", "too many indices for array"))
            /\ UNCHANGED loc
       ELSE /\ SetLoc(w, [loc[w] EXCEPT !.view = TRUE])
            /\ Goto(w, "ax_gd")
            /\ UNCHANGED result
    /\ UNCHANGED <<staticVars, tempspec, obsspec, obserr, writers, dirty>>

\* 1310-1319: gd, = np.where(spec != 0.0) ; ngd = np.sum(gd), a sum of
\* indices, then used as a count: gd[ngd-1]
AxGd(w) ==
    /\ fn[w] = "apxcorr" /\ pc[w] = "ax_gd"
    /\ LET gd == NonZeroIdx(obsspec[w].cols[1])
           ngd == SumSet(gd)
       IN IF ngd = 0
          THEN /\ Raise(w, IF Len(loc[w].lag2) > 1
                     THEN Err("TypeError", "only size-1 arrays can be converted to Python scalars")
                     ELSE Err("NameError", "name 'goto' is not defined"))
               /\ UNCHANGED loc
          ELSE IF ngd - 1 >= Cardinality(gd)
          THEN /\ Raise(w, Err("IndexError", "index out of bounds"))
               /\ UNCHANGED loc
          ELSE /\ SetLoc(w, [loc[w] EXCEPT !.gd = gd])
               /\ Goto(w, "ax_mask")
               /\ UNCHANGED result
    /\ UNCHANGED <<staticVars, tempspec, obsspec, obserr, writers, dirty>>

\* 1322-1327: spec[sfix] = np.nan and template[tfix] = np.nan, through the
\* views, when the sum of the indices below the floor is positive
AxMask(w) ==
    /\ fn[w] = "apxcorr" /\ pc[w] = "ax_mask"
    /\ LET spec == obsspec[w].cols[1]
           masksp == SumSet(BelowFloorIdx(spec)) > 0
           masktm == SumSet(BelowFloorIdx(tempspec)) > 0
       IN /\ obsspec' = IF masksp
                        THEN [obsspec EXCEPT ![w] = SetCol(@, 1, MaskBelowFloor(spec))]
                        ELSE obsspec
          /\ tempspec' = IF masktm THEN MaskBelowFloor(tempspec) ELSE tempspec
          /\ writers' = IF masktm THEN writers \cup {w} ELSE writers
    /\ ReadsTemplate(w)
    /\ Goto(w, "ax_select")
    /\ UNCHANGED <<staticVars, obserr, loc, result>>

\* 1336-1343: the window lo, hi and the test for the correlation; the
\* window is wider than nlag, and the index sums are positive
AxSelect(w) ==
    /\ fn[w] = "apxcorr" /\ pc[w] = "ax_select"
    /\ LET nlag == Len(loc[w].lag2)
           nw == Len(tempspec)
           gd == loc[w].gd
           first == NthOf(gd, 0)
           last == NthOf(gd, SumSet(gd) - 1)
           lo == IF first - nlag < 0 THEN 0 ELSE first - nlag
           hi == IF last + nlag > nw - 1 THEN nw - 1 ELSE last + nlag
           good == /\ hi - lo + 1 > nlag
                   /\ SumSet(FiniteIdx(obsspec[w].cols[1])) > 0
                   /\ SumSet(FiniteIdx(tempspec)) > 0
       IN /\ SetLoc(w, [loc[w] EXCEPT !.lo = lo, !.hi = hi])
          /\ Goto(w, IF good THEN "ax_corr" ELSE "ax_nogood")
    /\ ReadsTemplate(w)
    /\ UNCHANGED <<staticVars, tempspec, obsspec, obserr, result, writers>>

\* np.median of the values of a non-empty set of pixels (they are equal
\* wherever the model takes it)
MedianErr(err, idx) ==
    LET vals == {err[i + 1].v : i \in idx}
        lower == CHOOSE v \in vals : \A u \in vals : v <= u
        upper == CHOOSE v \in vals : \A u \in vals : u <= v
    IN (lower + upper) \div 2

\* obserr1 > 1 or obserr1 <= 0, in hundredths
ErrHigh == 10 * 10
BadErrIdx(e) == {i - 1 : i \in {j \in 1..Len(e) : e[j].fin /\ (e[j].v > ErrHigh \/ e[j].v <= 0)}}
GoodErrIdx(e) == {i - 1 : i \in {j \in 1..Len(e) : ~(e[j].fin /\ (e[j].v > ErrHigh \/ e[j].v <= 0))}}

\* obserr1 = err[lo:hi] ; obserr1[bderr] = np.median([obserr1[gderr]]),
\* written through the view into the caller's obserr
ErrFixed(err, lo, hi) ==
    LET e1 == SubSeq(err, lo + 1, hi)
        bderr == BadErrIdx(e1)
        gderr == GoodErrIdx(e1)
    IN IF SumSet(bderr) > 0 /\ SumSet(gderr) > 1
       THEN [j \in 1..Len(err) |->
               IF (j - 1 - lo) \in bderr /\ j - 1 >= lo
               THEN Fin(MedianErr(e1, gderr)) ELSE err[j]]
       ELSE err

\* 1346-1363: ccf = ccorrelate(template[lo:hi], spec[lo:hi], lag); ccferr
\* when errccf or not nofit; nsumgood += 1
AxCorr(w) ==
    /\ fn[w] = "apxcorr" /\ pc[w] = "ax_corr"
    /\ LET lo == loc[w].lo
           hi == loc[w].hi
           r == CcorrelateAt(SubSeq(tempspec, lo + 1, hi),
                             SubSeq(obsspec[w].cols[1], lo + 1, hi), loc[w].lag2)
       IN IF r.kind = "ok"
          THEN /\ SetLoc(w, [loc[w] EXCEPT
                      !.ccf = r.cross,
                      !.ccferr = ~nofit[w],
                      !.nsumgood = @ + 1])
               /\ obserr' = IF nofit[w] THEN obserr
                            ELSE [obserr EXCEPT ![w] =
                                    SetCol(@, 1, ErrFixed(obserr[w].cols[1], lo, hi))]
               /\ Goto(w, "ax_sum")
               /\ UNCHANGED result
          ELSE /\ Raise(w, r)
               /\ UNCHANGED <<loc, obserr>>
    /\ ReadsTemplate(w)
    /\ UNCHANGED <<staticVars, tempspec, obsspec, writers>>

\* 1364-1366: no good pixels: ccf = zeros ; ccferr = ccf when not nofit
AxNoGood(w) ==
    /\ fn[w] = "apxcorr" /\ pc[w] = "ax_nogood"
    /\ SetLoc(w, [loc[w] EXCEPT
            !.ccf = [k \in 1..Len(loc[w].lag2) |-> [n |-> 0, d |-> 1, rx |-> 1, ry |-> 1]],
            !.ccferr = ~nofit[w]])
    /\ Goto(w, "ax_sum")
    /\ UNCHANGED <<staticVars, tempspec, obsspec, obserr, result, writers, dirty>>

\* 1369-1374, ichip = 0: xcorr = ccf ; if (ccferr is True): ..., where
\* ccferr has been assigned only when errccf or not nofit
AxSum(w) ==
    /\ fn[w] = "apxcorr" /\ pc[w] = "ax_sum"
    /\ IF loc[w].ccferr
       THEN Goto(w, "ax_avg") /\ UNCHANGED result
       ELSE Raise(w, Err("UnboundLocalError",
                         "local variable 'ccferr' referenced before assignment"))
    /\ UNCHANGED <<staticVars, tempspec, obsspec, obserr, loc, writers, dirty>>

\* 1383-1387: 'No good cross-correlation' when nsumgood is 0; else
\* if (xcorrerr is True), and xcorrerr is assigned only under
\* (ccferr is True), which no array satisfies
AxAvg(w) ==
    /\ fn[w] = "apxcorr" /\ pc[w] = "ax_avg"
    /\ Raise(w, IF loc[w].nsumgood = 0
                THEN Err("Exception", "No good cross-correlation")
                ELSE Err("UnboundLocalError",
                         "local variable 'xcorrerr' referenced before assignment"))
    /\ UNCHANGED <<staticVars, tempspec, obsspec, obserr, loc, writers, dirty>>

---------------------------------------------------------------------------
(* normspec (rv.py 785-959).  A spectrum is given as the segments that     *)
(* fall into the bins of binned_statistic, one segment per bin, each a run *)
(* of pixels of one flux and one mask value, long enough (76 pixels) that  *)
(* the median filter of width 151 leaves a constant error array as it is.  *)
(* The percentile of a bin is then the flux of its segment, whatever       *)
(* perclevel is, and NaN when the segment is masked.  Fluxes and errors    *)
(* are in hundredths.                                                      *)

\* the number of bins, np.ceil((xr[1]-xr[0])/binsize)+1, and of segments
NormBins == 3

\* the largest ncorder of a call
MaxOrder == 2

Seg(flux, mask) == [flux |-> flux, mask |-> mask]

\* continuum values: a number n / d, or the values of a fitted polynomial
\* that is not constant, or inf / nan
Num(n, d) == [kind |-> "num", n |-> n, d |-> d]
PolyValues == [kind |-> "poly"]
NonFinite == [kind |-> "nonfinite"]
NoValue == [kind |-> "none"]
NumEq(a, b) == a.kind = "num" /\ b.kind = "num" /\ a.n * b.d = b.n * a.d

\* gdmask = (y>0), then gdmask = (mask == 0): spec always has a mask
\* (musthave, 826-829), so the second assignment decides; bdpix, nbdpix
GdMaskFluxOrMask(row) == {s \in 1..Len(row) : row[s].flux > 0 /\ row[s].mask = 0}
GdMask(row) == {s \in 1..Len(row) : row[s].mask = 0}
BdPix(row) == (1..Len(row)) \ GdMask(row)

\* ytemp = y.copy() ; ytemp[bdpix] = np.nan
Ytemp(row) == [s \in 1..Len(row) |-> IF s \in BdPix(row) THEN NaN ELSE Fin(row[s].flux)]

\* gdbin = np.isfinite(ybin): the bins whose percentile is finite
GdBin(yt) == {s \in 1..Len(yt) : yt[s].fin}

\* ngdbin < (ncorder+1)
NotEnoughOffByOne(ngdbin, ncorder) == ngdbin < ncorder
NotEnough(ngdbin, ncorder) == ngdbin < ncorder + 1

\* med_yerr = np.median(gsmooth(medfilt(yerr,151),100)) of a constant yerr
MedYerr(e) == e

\* (hasattr(spec,'err')) & (noerrcorr is False)
ErrCorrAlways(in) == TRUE
ErrCorr(in) == ~in.noerrcorr

\* coef1 = poly_fit(xbin[gdbin], ybin[gdbin], ncorder) ; cont1 = poly(x, coef1)
\* ; cont1 -= 2*med_yerr: the fit of equal bin values is that value
Cont1(yt, in) ==
    LET vals == {yt[s].v : s \in GdBin(yt)}
    IN IF Cardinality(vals) = 1
       THEN Num((CHOOSE v \in vals : TRUE)
                  - (IF ErrCorr(in) THEN 2 * MedYerr(in.err) ELSE 0), 1)
       ELSE PolyValues

\* ytemp2 = ytemp/cont1 and the bins of its percentiles that are finite: a
\* division by a zero continuum gives inf or nan
GdBin2(yt, cont1) ==
    IF cont1.kind = "num" /\ cont1.n = 0 THEN {} ELSE GdBin(yt)

\* coef2 = poly_fit(xbin2[gdbin2], ybin2[gdbin2], ncorder) ; cont2 = poly(x,
\* coef2) ; cont2 -= med_yerr/cont1
Cont2(yt, cont1, in) ==
    LET vals == {yt[s].v : s \in GdBin(yt)}
    IN IF cont1.kind = "num" /\ Cardinality(vals) = 1
       THEN Num((CHOOSE v \in vals : TRUE) * cont1.d
                  - (IF ErrCorr(in) THEN MedYerr(in.err) * cont1.d ELSE 0), cont1.n)
       ELSE PolyValues

\* cont = cont1*cont2
ContProduct(c1, c2) ==
    IF c1.kind = "num" /\ c2.kind = "num" THEN Num(c1.n * c2.n, c1.d * c2.d)
    ELSE PolyValues

\* spec.flux / cont at one pixel
Quot(flux, cont) ==
    IF cont.kind = "poly" THEN [kind |-> "poly", flux |-> flux]
    ELSE IF cont.n = 0 THEN NonFinite
    ELSE Num(flux * cont.d, cont.n)

\* if (nbdpix>0) & fixbadpix is True: y[bdpix] = cont[bdpix] changes at
\* most the local copy y, which is not read again;
\* nspec = spec.flux.copy()/cont
NspecOf(row, cont) == [s \in 1..Len(row) |-> Quot(row[s].flux, cont)]

\* masked = zeros ; if (fixbadpix is True) & (nbdpix>0): masked[bdpix] = True
MaskedOf(row, fixbadpix) ==
    [s \in 1..Len(row) |-> fixbadpix /\ Cardinality(BdPix(row)) > 0 /\ s \in BdPix(row)]

NLocInit ==
    [i |-> 0, ytemp |-> <<>>, nbdpix |-> 0, ngdbin |-> 0 - 1, ngdbin2 |-> 0 - 1,
     cont1 |-> NoValue, cont |-> NoValue, raisedAt |-> "none",
     nspec |-> <<>>, conts |-> <<>>, masked |-> <<>>]

NormIdle ==
    /\ nin = [ndim |-> 0]
    /\ npc = "off"
    /\ nloc = NLocInit
    /\ nres = [kind |-> "none"]

\* an exception leaves normspec, and with it the loop over the rows of a
\* two-dimensional flux (844-872), which has no try
NRaise(e, stage) ==
    /\ nres' = e
    /\ npc' = "done"
    /\ nloc' = [nloc EXCEPT !.raisedAt = stage]

\* 838-872: a two-dimensional flux is normalized row by row, each row by a
\* call of normspec on a Spec1D of it; a one-dimensional one is the one row
NsStart ==
    /\ npc = "start"
    /\ nloc' = [nloc EXCEPT !.i = 1]
    /\ npc' = "mask"
    /\ UNCHANGED <<nin, nres, corrVars, orchVars, velVars, fitVars>>

\* 877-896: the copies, the good and bad pixels, ytemp
NsMask ==
    /\ npc = "mask"
    /\ nloc' = [nloc EXCEPT
            !.ytemp = Ytemp(nin.rows[nloc.i]),
            !.nbdpix = Cardinality(BdPix(nin.rows[nloc.i])),
            !.ngdbin = 0 - 1, !.ngdbin2 = 0 - 1,
            !.cont1 = NoValue, !.cont = NoValue]
    /\ npc' = "pass1"
    /\ UNCHANGED <<nin, nres, corrVars, orchVars, velVars, fitVars>>

\* 901-909: the bins of the first pass and the test of their number
NsPass1 ==
    /\ npc = "pass1" /\ nloc.ngdbin < 0
    /\ LET ngdbin == Cardinality(GdBin(nloc.ytemp))
       IN IF NotEnough(ngdbin, nin.ncorder)
          THEN /\ NRaise(Err("Exception", "Not enough good flux points to fit the continuum"),
                        "pass1")
          ELSE /\ nloc' = [nloc EXCEPT !.ngdbin = ngdbin]
               /\ UNCHANGED <<npc, nres>>
    /\ UNCHANGED <<nin, corrVars, orchVars, velVars, fitVars>>

\* 911-923: poly_fit returns the coefficients; the first continuum
NsFit1 ==
    /\ npc = "pass1" /\ nloc.ngdbin >= 0
    /\ nloc' = [nloc EXCEPT !.cont1 = Cont1(nloc.ytemp, nin)]
    /\ npc' = "pass2"
    /\ UNCHANGED <<nin, nres, corrVars, orchVars, velVars, fitVars>>

\* 928-935: the bins of the second pass and the test of their number
NsPass2 ==
    /\ npc = "pass2" /\ nloc.ngdbin2 < 0
    /\ LET ngdbin2 == Cardinality(GdBin2(nloc.ytemp, nloc.cont1))
       IN IF NotEnough(ngdbin2, nin.ncorder)
          THEN /\ NRaise(Err("Exception", "Not enough good flux points to fit the continuum"),
                        "pass2")
          ELSE /\ nloc' = [nloc EXCEPT !.ngdbin2 = ngdbin2]
               /\ UNCHANGED <<npc, nres>>
    /\ UNCHANGED <<nin, corrVars, orchVars, velVars, fitVars>>

\* 937-945: poly_fit returns the coefficients; cont = cont1*cont2
NsFit2 ==
    /\ npc = "pass2" /\ nloc.ngdbin2 >= 0
    /\ nloc' = [nloc EXCEPT
            !.cont = ContProduct(nloc.cont1, Cont2(nloc.ytemp, nloc.cont1, nin))]
    /\ npc' = "finish"
    /\ UNCHANGED <<nin, nres, corrVars, orchVars, velVars, fitVars>>

\* poly_fit 138-140: least_squares reports no success
NsFitProblem ==
    /\ \/ npc = "pass1" /\ nloc.ngdbin >= 0
       \/ npc = "pass2" /\ nloc.ngdbin2 >= 0
    /\ NRaise(Err("Exception", "Problem with least squares polynomial fitting"), npc)
    /\ UNCHANGED <<nin, corrVars, orchVars, velVars, fitVars>>

\* 947-959 for the row, then the next row (844-858) or the return (873, 959)
NsFinish ==
    /\ npc = "finish"
    /\ LET row == nin.rows[nloc.i]
           out == [nloc EXCEPT
                     !.nspec = Append(@, NspecOf(row, nloc.cont)),
                     !.conts = Append(@, nloc.cont),
                     !.masked = Append(@, MaskedOf(row, nin.fixbadpix))]
       IN IF nloc.i < Len(nin.rows)
          THEN /\ nloc' = [out EXCEPT !.i = @ + 1]
               /\ npc' = "mask"
               /\ UNCHANGED nres
          ELSE /\ nloc' = out
               /\ npc' = "done"
               /\ nres' = [kind |-> "ok", nspec |-> out.nspec, cont |-> out.conts,
                           masked |-> out.masked]
    /\ UNCHANGED <<nin, corrVars, orchVars, velVars, fitVars>>

NextNorm ==
    \/ NsStart \/ NsMask \/ NsPass1 \/ NsFit1 \/ NsPass2 \/ NsFit2
    \/ NsFitProblem \/ NsFinish

\* the segments of the model: flux 1.00 or 2.00 unmasked, flux 0 unmasked,
\* flux 1.00 masked; the error arrays: 0 or 0.50 everywhere
SegKinds == {Seg(100, 0), Seg(200, 0), Seg(0, 0), Seg(100, 1)}
ErrLevels == {0, 50}

\* the other rows of a two-dimensional flux: all good or all masked
RECURSIVE OtherRows(_)
OtherRows(k) ==
    IF k = 0 THEN {<<>>}
    ELSE {<<[s \in 1..NormBins |-> sg]>> \o t :
            sg \in {Seg(100, 0), Seg(100, 1)}, t \in OtherRows(k - 1)}

NormCalls ==
    {[ndim |-> IF dd THEN 2 ELSE 1, rows |-> <<row>> \o t, err |-> e, ncorder |-> n,
      fixbadpix |-> fb, noerrcorr |-> ne] :
        dd \in BOOLEAN, row \in SeqsOfLen(SegKinds, NormBins),
        t \in UNION {OtherRows(k) : k \in 0..(MaxSpec - 1)},
        e \in ErrLevels, n \in 0..MaxOrder, fb \in BOOLEAN, ne \in BOOLEAN}

---------------------------------------------------------------------------
(* The conversion of the fitted pixel shift to a velocity                   *)
(* (specxcorr 1174-1192, apxcorr 1466-1484).                                *)
(*                                                                         *)
(* Numbers.  The shift, the covariance and the logarithms of the           *)
(* wavelengths are rationals [n, d] in lowest terms.  A computed value is  *)
(* a sum of terms q * ln(10)^ln10 * cspeed^c * 10^e with a rational q # 0  *)
(* and a rational exponent e, one term per (ln10, c, e): ln(10) and        *)
(* cspeed = 2.99792458e5 (1001, 1251) are positive constants that are      *)
(* kept as symbols, and 10**e is kept as a power unless e = 0, where it    *)
(* is the number 1.  The empty sum is the value 0.                         *)

RECURSIVE Gcd(_, _)
Gcd(a, b) == CHOOSE g \in {IF y = 0 THEN x ELSE Gcd(y, x % y) : x \in {a}, y \in {b}} : TRUE

\* (An operator that reads an argument more than once binds it to a
\* variable first, so that the argument is evaluated once.)
LowestTerms(n, d, g) == [n |-> n \div g, d |-> d \div g]
Q(n, d) ==
    CHOOSE q \in {LowestTerms(IF y < 0 THEN 0 - x ELSE x, Abs(y), g) :
                    x \in {n}, y \in {d}, g \in {Gcd(Abs(n), Abs(d))}} : TRUE
QAdd(a, b) == CHOOSE q \in {Q(x.n * y.d + y.n * x.d, x.d * y.d) : x \in {a}, y \in {b}} : TRUE
QMul(a, b) == CHOOSE q \in {Q(x.n * y.n, x.d * y.d) : x \in {a}, y \in {b}} : TRUE
QAbs(a) == CHOOSE q \in {Q(Abs(x.n), x.d) : x \in {a}} : TRUE
QLess(a, b) == \E x \in {a}, y \in {b} : x.n * y.d < y.n * x.d

Term(q, k, j, e) == [q |-> q, ln10 |-> k, c |-> j, e |-> e]
Mono(q, k, j, e) == IF q.n = 0 THEN {} ELSE {Term(q, k, j, e)}
Rat(q) == Mono(q, 0, 0, Q(0, 1))
Atoms(t) == <<t.ln10, t.c, t.e>>
CoefOf(A, a) ==
    IF \E t \in A : Atoms(t) = a THEN (CHOOSE t \in A : Atoms(t) = a).q ELSE Q(0, 1)
\* A + B
VAdd(A, B) ==
    UNION {Mono(QAdd(CoefOf(A, a), CoefOf(B, a)), a[1], a[2], a[3]) :
             a \in {Atoms(t) : t \in A \cup B}}
\* A * B, for a B of at most one term
VMul(A, B) ==
    UNION {Mono(QMul(t.q, m.q), t.ln10 + m.ln10, t.c + m.c, QAdd(t.e, m.e)) :
             t \in A, m \in B}
NonNegative(A) == \A t \in A : t.q.n >= 0

\* cspeed (1001, 1251), np.log(10.0) (1191), np.log10(10.0) (1483), 10**e
Cspeed == Mono(Q(1, 1), 0, 1, Q(0, 1))
Ln10 == Mono(Q(1, 1), 1, 0, Q(0, 1))
Log10Of10 == Rat(Q(1, 1))
Pow10(e) == Mono(Q(1, 1), 0, 0, e)

\* The wavelength grid is given by its exponents: wave[i] is the positive
\* wavelength 10^(w[i] / LogScale), and np.log10 of it is w[i] / LogScale.
LogScale == 10 * 10
Log10Wave(wave) == [i \in DOMAIN wave |-> Q(wave[i], LogScale)]
\* slope(a): the differences of neighbouring elements, a[1:] - a[:-1]
Slope(a) == [i \in 1..(Len(a) - 1) |-> QAdd(a[i + 1], QMul(Q(-1, 1), a[i]))]
\* the k-th smallest element of a
KthSmallest(a, k) ==
    CHOOSE v \in {a[i] : i \in DOMAIN a} :
        /\ Cardinality({i \in DOMAIN a : QLess(a[i], v)}) < k
        /\ Cardinality({i \in DOMAIN a : ~QLess(v, a[i])}) >= k
\* np.median(a): the middle element, or the mean of the two middle ones
MedianSlope(a) ==
    LET n == Len(a)
    IN  IF n % 2 = 1 THEN KthSmallest(a, (n + 1) \div 2)
        ELSE QMul(Q(1, 2), QAdd(KthSmallest(a, n \div 2), KthSmallest(a, n \div 2 + 1)))
\* dwlog = np.median(slope(np.log10(wave)))              (1188, 1480)
Dwlog(wave) == MedianSlope(Slope(Log10Wave(wave)))

\* vrel = ( 10**(xshift*dwlog)-1 )*cspeed                (1189, 1481)
VrelMinusOutside(xshift, dwlog) ==
    VAdd(VMul(Pow10(QMul(xshift, dwlog)), Cspeed), Rat(Q(-1, 1)))
Vrel(xshift, dwlog) ==
    VMul(VAdd(Pow10(QMul(xshift, dwlog)), Rat(Q(-1, 1))), Cspeed)
\* dvreldshift = <log>*(10**(xshift*dwlog))*dwlog*cspeed, the factor <log>
\* being np.log(10.0) in specxcorr (1191), np.log10(10.0) in apxcorr (1483)
Dvreldshift(logfactor, xshift, dwlog) ==
    VMul(VMul(VMul(logfactor, Pow10(QMul(xshift, dwlog))), Rat(dwlog)), Cspeed)

\* the standard deviations of the model, and the root of their squares
Sigmas == {Q(0, 1), Q(1, 2), Q(1, 1), Q(2, 1)}
SqrtQ(q) == CHOOSE s \in Sigmas : QMul(s, s) = q
\* specxcorr: perror3 = cov3[np.arange(4),np.arange(4)] (1164, 1172), the
\* diagonal of the covariance; xshifterr = perror[1] (1178)
XshifterrSx(cov11) == cov11
\* apxcorr: perror = np.sqrt(np.diag(cov3)) (1468); xshifterr = perror[1]
XshifterrAx(cov11) == SqrtQ(cov11)

\* what the block sets of the output record: xshift, xshifterr, vrel,
\* vrelerr = dvreldshift * xshifterr (1192, 1484) and dw
VelocityOf(in, logfactor, xshifterr) ==
    LET dwlog == Dwlog(in.wave)
    IN  [xshift |-> in.xshift, xshifterr |-> xshifterr,
         vrel |-> Vrel(in.xshift, dwlog),
         vrelerr |-> VMul(Dvreldshift(logfactor, in.xshift, dwlog), Rat(xshifterr)),
         dw |-> dwlog]

NoVelocity == [sx |-> NoValue, ax |-> NoValue]
VelIdle ==
    /\ vin = [wave |-> <<>>]
    /\ vres = NoVelocity

\* specxcorr 1176-1192
VelSpecxcorr ==
    /\ vin.wave # <<>>
    /\ vres.sx = NoValue
    /\ vres' = [vres EXCEPT !.sx = VelocityOf(vin, Ln10, XshifterrSx(vin.cov11))]
    /\ UNCHANGED <<vin, corrVars, orchVars, normVars, fitVars>>

\* apxcorr 1467-1484
VelApxcorr ==
    /\ vin.wave # <<>>
    /\ vres.ax = NoValue
    /\ vres' = [vres EXCEPT !.ax = VelocityOf(vin, Log10Of10, XshifterrAx(vin.cov11))]
    /\ UNCHANGED <<vin, corrVars, orchVars, normVars, fitVars>>

NextVel == VelSpecxcorr \/ VelApxcorr

\* the grids have 2..MaxWave wavelengths with exponents 0..MaxLog, in any
\* order; the fitted shift is a multiple of half a pixel
MaxWave == 3
MaxLog == 2
MaxShift == 2
WaveGrids == UNION {SeqsOfLen(0..MaxLog, n) : n \in 2..MaxWave}
VelCalls ==
    {[wave |-> w, xshift |-> Q(k, 2), cov11 |-> QMul(sg, sg)] :
        w \in WaveGrids, k \in (-MaxShift)..MaxShift, sg \in Sigmas}

---------------------------------------------------------------------------
(* The fit of the correlation peak (specxcorr 1110-1178, apxcorr           *)
(* 1413-1470), one action per group of statements.                         *)
(*                                                                         *)
(* A parameter vector is <<amp, cen, sig, const>>, of rationals; a bound    *)
(* may also be -inf or +inf.  The arrays pars0..pars3 that curve_fit       *)
(* returns are objects: estimates1 = pars0 binds a second name to the      *)
(* array pars0, and an assignment to an element of estimates1 changes that *)
(* array.  floc.pars[k] is the array parsk as it is now, floc.ret[k] the   *)
(* value curve_fit returned for it.                                        *)

PosInf == [n |-> 1, d |-> 0]
NegInf == [n |-> 0 - 1, d |-> 0]
ExtLess(a, b) ==
    \E x \in {a}, y \in {b} :
        IF x.d = 0 \/ y.d = 0
        THEN (x = NegInf /\ y # NegInf) \/ (y = PosInf /\ x # PosInf)
        ELSE QLess(x, y)
QSub(a, b) == QAdd(a, QMul(Q(0 - 1, 1), b))
QInt(i) == Q(i, 1)
QFloor(a) == a.n \div a.d
QCeil(a) == 0 - ((0 - a.n) \div a.d)

\* lt(x,limit), gt(x,limit), limit(x,llimit,ulimit) of scalars   (34-54)
lt(x, limit) == CHOOSE out \in {IF QLess(i, l) THEN i ELSE l : i \in {x}, l \in {limit}} : TRUE
gt(x, limit) == CHOOSE out \in {IF QLess(l, i) THEN i ELSE l : i \in {x}, l \in {limit}} : TRUE
LimitMinFirst(x, llimit, ulimit) == gt(lt(x, ulimit), llimit)
Limit(x, llimit, ulimit) == lt(gt(x, llimit), ulimit)

\* the lag axis of a call that reaches the fit: the integer axis of the
\* Python 2 build (1021-1024, 1276-1281)
FitLag(m) == HalfLag(LagAxis2(m, "py2"))
MinLag(m) == QInt(FitLag(m)[1])
MaxLagOf(m) == QInt(FitLag(m)[Len(FitLag(m))])
\* lag[k] for a 0-based k
LagAt(m, k) == QInt(FitLag(m)[k + 1])

\* lo = np.int(gt(np.floor(best_shiftind-gt(sig*2,5)),0))
\* hi = np.int(lt(np.ceil(best_shiftind+gt(sig*2,5)),len(lag)))
\* and the slice lag[lo:hi], which ends before index hi
HalfWidth(sig) == gt(QMul(QInt(2), sig), QInt(5))
WindowLo(bi, sig) ==
    LET f == QFloor(QSub(QInt(bi), HalfWidth(sig))) IN IF f > 0 THEN f ELSE 0
WindowHi(bi, sig, nlag) ==
    LET c == QCeil(QAdd(QInt(bi), HalfWidth(sig))) IN IF c < nlag THEN c ELSE nlag
SliceInclusive(lo, hi, nlag) == {k \in 0..(nlag - 1) : lo <= k /\ k <= hi}
Slice(lo, hi, nlag) == {k \in 0..(nlag - 1) : lo <= k /\ k < hi}

\* the bounds of the constant of passes 1..3 and of the safeguard:
\* lt(np.min(ccf_diff),lt(0,e3-0.1)), gt(np.max(ccf_diff)*0.5,e3+0.1)
ConstLo(in, e3) == lt(in.mn, lt(QInt(0), QSub(e3, Q(1, 10))))
ConstHi(in, e3) == gt(QMul(in.mx, Q(1, 2)), QAdd(e3, Q(1, 10)))

\* 1122-1124: estimates0, lbounds0, ubounds0 of specxcorr
SxSeed0(in) ==
    [seed |-> <<in.amp0, LagAt(in.m, in.bi0), QInt(4), QInt(0)>>,
     lb |-> <<Q(1, 1000), MinLag(in.m), Q(1, 10), NegInf>>,
     ub |-> <<PosInf, MaxLagOf(in.m), MaxLagOf(in.m), PosInf>>]
\* 1421-1423: estimates0, lbounds0, ubounds0 of apxcorr
AxSeed0(in) ==
    [seed |-> <<in.amp0, LagAt(in.m, in.bi0), QInt(4), QInt(0)>>,
     lb |-> <<Q(1, 1000), MinLag(in.m), Q(1, 10), QMul(QInt(0 - 2), in.mx)>>,
     ub |-> <<QMul(QInt(2), in.mx), MaxLagOf(in.m), MaxLagOf(in.m),
              QMul(QInt(2), in.mx)>>]
\* 1132-1133: lbounds1, ubounds1 for the seed e (estimates1)
Bounds1(in, e) ==
    LET bx == LagAt(in.m, in.bi)
    IN [lb |-> <<QMul(Q(1, 2), e[1]), QSub(bx, QInt(4)), QMul(Q(3, 10), e[3]),
                 ConstLo(in, e[4])>>,
        ub |-> <<QMul(Q(3, 2), e[1]), QAdd(bx, QInt(4)), QMul(Q(3, 2), e[3]),
                 ConstHi(in, e[4])>>]
\* 1143-1146, 1156-1159: lbounds2, ubounds2 (lbounds3, ubounds3) for the
\* seed e (estimates2, estimates3)
Bounds23(in, e) ==
    LET bx == LagAt(in.m, in.bi)
    IN [lb |-> <<QMul(Q(1, 2), e[1]),
                 Limit(QSub(bx, gt(e[3], QInt(1))), MinLag(in.m), QSub(e[2], QInt(1))),
                 QMul(Q(3, 10), e[3]), ConstLo(in, e[4])>>,
        ub |-> <<QMul(Q(3, 2), e[1]),
                 Limit(QAdd(bx, gt(e[3], QInt(1))), QAdd(e[2], QInt(1)), MaxLagOf(in.m)),
                 QMul(Q(3, 2), e[3]), ConstHi(in, e[4])>>]
\* 1168-1169: dlbounds3, dubounds3, from estimates3 (e) and pars3 (p)
BoundsSafeguard(in, e, p) ==
    [lb |-> <<QMul(Q(1, 2), e[1]), QAdd(QInt(0 - 10), p[2]), Q(1, 100), ConstLo(in, e[4])>>,
     ub |-> <<QMul(Q(3, 2), e[1]), QAdd(QInt(10), p[2]), QMul(QInt(2), p[3]),
              ConstHi(in, e[4])>>]

\* curve_fit with bounds (least_squares): a lower bound must be strictly
\* below its upper bound, and the seed must lie within the bounds
WellFormedBox(lb, ub) == \A i \in 1..4 : ExtLess(lb[i], ub[i])
SeedInBox(seed, lb, ub) ==
    \A i \in 1..4 : ~ExtLess(seed[i], lb[i]) /\ ~ExtLess(ub[i], seed[i])
Feasible(c) == WellFormedBox(c.lb, c.ub) /\ SeedInBox(c.seed, c.lb, c.ub)
\* the parameters a converged fit may return: within the bounds; the model
\* takes centre and width at their lower bounds, the centre at its upper
\* and the width at its lower bound, the centre at the seed and the width
\* at its upper bound, or both at their upper bounds
Solutions(c) ==
    {<<c.seed[1], cs[1], cs[2], c.seed[4]>> :
        cs \in {<<c.lb[2], c.lb[3]>>, <<c.ub[2], c.lb[3]>>,
                <<c.seed[2], c.ub[3]>>, <<c.ub[2], c.ub[3]>>}}
\* the diagonals of a covariance that the model takes: all small, or the
\* variance of the amplitude or of the centre above 10, or that of the
\* width above 100
Small == QInt(1)
Large == QInt(11)
Huge == QInt(101)
Perrors ==
    {<<Small, Small, Small, Small>>, <<Large, Small, Small, Small>>,
     <<Small, Large, Small, Small>>, <<Small, Small, Huge, Small>>}
\* 1167: if (perror3[0]>10) | (perror3[1]>10)
SafeguardNeededWidth(perror3) == QLess(QInt(10), perror3[2]) \/ QLess(QInt(10), perror3[3])
SafeguardNeeded(perror3) == QLess(QInt(10), perror3[1]) \/ QLess(QInt(10), perror3[2])

\* gaussfit(x,y,initpar,sigma,bounds,binned=False): func = gaussian, or
\* gaussbin if binned is True (114-116); specxcorr passes no binned,
\* apxcorr passes binned=True
FuncOfAlwaysBinned(f) == "gaussbin"
FuncOf(f) == IF f = "apxcorr" THEN "gaussbin" ELSE "gaussian"

NoPars == [k \in 0..3 |-> NoValue]
FLocInit ==
    [pass |-> 0, call |-> NoValue, runs |-> <<>>, pars |-> NoPars, ret |-> NoPars,
     perror3 |-> NoValue, covs |-> <<>>, est3 |-> NoValue, result |-> [kind |-> "none"]]
FitIdle ==
    /\ fin = [fn |-> "off"]
    /\ fpc = "off"
    /\ floc = FLocInit

\* the call of gaussfit that the statements of a pass have prepared
Prepare(k, c, lo, hi) ==
    [pass |-> k, func |-> FuncOf(fin.fn), seed |-> c.seed, lb |-> c.lb, ub |-> c.ub,
     lo |-> lo, hi |-> hi]
NLagOf(in) == Len(FitLag(in.m))

\* 1122-1124, 1421-1423: the seed and the bounds of pass 0, on all lags
FitSeed0 ==
    /\ fpc = "seed" /\ floc.pass = 0
    /\ floc' = [floc EXCEPT !.call =
          Prepare(0, IF fin.fn = "apxcorr" THEN AxSeed0(fin) ELSE SxSeed0(fin),
                  0, NLagOf(fin))]
    /\ fpc' = "call"
    /\ UNCHANGED <<fin, corrVars, orchVars, normVars, velVars>>

\* 1130-1135 (1432-1437): estimates1 = pars0 ; estimates1[1] = best_xshift,
\* which writes into pars0; the bounds and the window of pass 1
FitSeed1 ==
    /\ fpc = "seed" /\ floc.pass = 1
    /\ LET pars0 == [floc.pars[0] EXCEPT ![2] = LagAt(fin.m, fin.bi)]
           b == Bounds1(fin, pars0)
       IN floc' = [floc EXCEPT
              !.pars[0] = pars0,
              !.call = Prepare(1, [seed |-> pars0, lb |-> b.lb, ub |-> b.ub],
                               WindowLo(fin.bi, pars0[3]),
                               WindowHi(fin.bi, pars0[3], NLagOf(fin)))]
    /\ fpc' = "call"
    /\ UNCHANGED <<fin, corrVars, orchVars, normVars, velVars>>

\* 1141-1148: estimates2 = pars1 ; estimates2[3] = np.median(ccf_diff[lo1:hi1]
\* -yfit1) + pars1[3], which writes into pars1; the bounds and the window
FitSeed2 ==
    /\ fpc = "seed" /\ floc.pass = 2
    /\ LET pars1 == [floc.pars[1] EXCEPT ![4] = QAdd(fin.med, floc.pars[1][4])]
           b == Bounds23(fin, pars1)
       IN floc' = [floc EXCEPT
              !.pars[1] = pars1,
              !.call = Prepare(2, [seed |-> pars1, lb |-> b.lb, ub |-> b.ub],
                               WindowLo(fin.bi, pars1[3]),
                               WindowHi(fin.bi, pars1[3], NLagOf(fin)))]
    /\ fpc' = "call"
    /\ UNCHANGED <<fin, corrVars, orchVars, normVars, velVars>>

\* 1154-1161: estimates3 = pars2 ; estimates3[3] = np.median(ccf_diff[lo1:hi1]
\* -yfit1) + pars1[3], which writes into pars2 and reads pars1 as it is now
FitSeed3 ==
    /\ fpc = "seed" /\ floc.pass = 3
    /\ LET pars2 == [floc.pars[2] EXCEPT ![4] = QAdd(fin.med, floc.pars[1][4])]
           b == Bounds23(fin, pars2)
       IN floc' = [floc EXCEPT
              !.pars[2] = pars2,
              !.call = Prepare(3, [seed |-> pars2, lb |-> b.lb, ub |-> b.ub],
                               WindowLo(fin.bi, pars2[3]),
                               WindowHi(fin.bi, pars2[3], NLagOf(fin)))]
    /\ fpc' = "call"
    /\ UNCHANGED <<fin, corrVars, orchVars, normVars, velVars>>

\* 1170: gaussfit(lag[lo3:hi3],ccf_diff[lo3:hi3],pars3,...): the seed of the
\* safeguard, given estimates3 and pars3
SafeguardSeedFromEstimates(e, p) == e
SafeguardSeed(e, p) == p

\* 1167-1169: the test of the safeguard, and its bounds; the refit starts
\* from pars3 on the window of pass 3
FitSafeguardTest ==
    /\ fpc = "test"
    /\ IF SafeguardNeeded(floc.perror3)
       THEN LET b == BoundsSafeguard(fin, floc.pars[2], floc.pars[3])
                last == floc.runs[Len(floc.runs)]
            IN /\ floc' = [floc EXCEPT
                      !.pass = SafeguardPass,
                      !.call = Prepare(SafeguardPass,
                                       [seed |-> SafeguardSeed(floc.pars[2], floc.pars[3]),
                                        lb |-> b.lb, ub |-> b.ub],
                                       last.lo, last.hi)]
               /\ fpc' = "call"
       ELSE /\ fpc' = "final"
            /\ UNCHANGED floc
    /\ UNCHANGED <<fin, corrVars, orchVars, normVars, velVars>>

\* the call of the undefined name or of the float slice: see AxFitPass1Raises
CallRuns == ~(fin.fn = "apxcorr" /\ floc.pass >= 1)

\* gaussfit returns: curve_fit has converged.  1125-1126, 1136-1138,
\* 1149-1151, 1162-1164, 1170-1172: pars, cov and the diagonal of cov
\* (floc.covs: the diagonals that pass 3 and the safeguard returned; those
\* of the passes before are not read)
FitSolve ==
    /\ fpc = "call" /\ CallRuns
    /\ Feasible(floc.call)
    /\ \E sol \in Solutions(floc.call), perr \in Perrors :
         LET k == floc.pass
             ran == [floc EXCEPT !.runs = Append(@, floc.call), !.call = NoValue]
         IN IF k < LastPass
            THEN /\ floc' = [ran EXCEPT !.pars[k] = sol, !.ret[k] = sol, !.pass = k + 1]
                 /\ fpc' = "seed"
            ELSE IF k = LastPass
            THEN /\ floc' = [ran EXCEPT !.pars[k] = sol, !.ret[k] = sol,
                                        !.perror3 = perr, !.covs = Append(@, perr)]
                 /\ fpc' = "test"
            ELSE /\ floc' = [ran EXCEPT !.perror3 = perr, !.covs = Append(@, perr)]
                 /\ fpc' = "final"
    /\ UNCHANGED <<fin, corrVars, orchVars, normVars, velVars>>

\* curve_fit raises RuntimeError when least_squares does not converge;
\* neither gaussfit nor the orchestrator catches it
FitNotConverged ==
    /\ fpc = "call" /\ CallRuns
    /\ Feasible(floc.call)
    /\ floc' = [floc EXCEPT !.runs = Append(@, floc.call), !.call = NoValue,
                  !.result = Err("RuntimeError", "Optimal parameters not found")]
    /\ fpc' = "failed"
    /\ UNCHANGED <<fin, corrVars, orchVars, normVars, velVars>>

\* curve_fit raises ValueError for bounds that are not ordered or a seed
\* outside them
FitInfeasible ==
    /\ fpc = "call" /\ CallRuns
    /\ ~Feasible(floc.call)
    /\ floc' = [floc EXCEPT !.runs = Append(@, floc.call), !.call = NoValue,
                  !.result = IF WellFormedBox(floc.call.lb, floc.call.ub)
                             THEN Err("ValueError", "x0 is infeasible")
                             ELSE Err("ValueError", "lower bound not below upper bound")]
    /\ fpc' = "failed"
    /\ UNCHANGED <<fin, corrVars, orchVars, normVars, velVars>>

\* apxcorr 1438-1439: gaussfit(lag[lo1:hi1],...,bounds=(lbounds1,ubounds1)):
\* lo1 and hi1 are floats, which a slice takes or refuses depending on the
\* numpy of the build, and lbounds1 and ubounds1 are never assigned (1434-
\* 1435 assign lbounds0 and ubounds0 again); gaussfit is not entered
AxFitPass1Raises ==
    /\ fpc = "call" /\ ~CallRuns
    /\ \E e \in {Err("TypeError", "slice indices must be integers"),
                 Err("NameError", "name 'lbounds1' is not defined")} :
          floc' = [floc EXCEPT !.call = NoValue, !.result = e]
    /\ fpc' = "failed"
    /\ UNCHANGED <<fin, corrVars, orchVars, normVars, velVars>>

\* 1175-1178: pars = pars3 ; perror = perror3
FitFinal ==
    /\ fpc = "final"
    /\ floc' = [floc EXCEPT !.result =
                  [kind |-> "ok", pars |-> floc.pars[3], perror |-> floc.perror3]]
    /\ fpc' = "done"
    /\ UNCHANGED <<fin, corrVars, orchVars, normVars, velVars>>

NextFit ==
    \/ FitSeed0 \/ FitSeed1 \/ FitSeed2 \/ FitSeed3 \/ FitSafeguardTest
    \/ FitSolve \/ FitNotConverged \/ FitInfeasible \/ AxFitPass1Raises
    \/ FitFinal

\* the fits of the model: maxlag 1 or FitMaxLag; the maximum of ccf_diff at
\* an end, next to an end or in the middle of the axis, 0 (a flat function)
\* or 0.5 high, the minimum 0 or -0.5, the median residual 0 or 0.1
FitMaxLag == 6
BestIndices(nlag) == {0, 1, nlag \div 2, nlag - 1}
FitCalls ==
    {[fn |-> f, m |-> m, bi |-> bi, bi0 |-> bi, amp0 |-> hm[1], mx |-> hm[1],
      mn |-> hm[2], med |-> med] :
        f \in {"specxcorr", "apxcorr"}, m \in {1, FitMaxLag},
        bi \in UNION {BestIndices(NLag(mm)) : mm \in {1, FitMaxLag}},
        hm \in {<<QInt(0), QInt(0)>>, <<Q(1, 2), QInt(0)>>, <<Q(1, 2), Q(0 - 1, 2)>>},
        med \in {QInt(0), Q(1, 10)}}

---------------------------------------------------------------------------
(* The invocations that are checked *)

Next ==
    \E w \in Workers :
        \/ SxSetup(w) \/ SxMask(w) \/ SxSelect(w) \/ SxCorr(w) \/ SxNoGood(w)
        \/ SxBest(w) \/ SxChisq(w)
        \/ SxFitConverged(w) \/ SxFitNotConverged(w) \/ SxFitInfeasible(w)
        \/ SxFinal(w)
        \/ AxNameError(w) \/ AxSize(w) \/ AxView(w) \/ AxGd(w) \/ AxMask(w)
        \/ AxSelect(w) \/ AxCorr(w) \/ AxNoGood(w) \/ AxSum(w) \/ AxAvg(w)

\* pixel profiles, in hundredths: a continuum of 1.00 with a line of depth
\* 0.40 every third pixel, one pixel later in the observed spectrum
TempGood(i) == IF i % 3 = 0 THEN 60 ELSE 100
ObsGood(i) == IF i % 3 = 1 THEN 60 ELSE 100
ErrGood(i) == 10
Pixels(G(_), bad, n) == [i \in 1..n |-> IF i \in bad THEN Fin(0) ELSE Fin(G(i))]

\* the sets of bad (zero) pixels of an array of n pixels: none, all, the
\* first, the last, and all but the first one, two or three or the second;
\* fewer of them for the errors and for two invocations
BadSets(n) == {{}, 1..n, {1}, {n}, 2..n, (1..n) \ {2}, 3..n, 4..n}
FewBadSets(n) == {{}, 1..n, {1}, {2}, 2..n}
ConcBadSets(n) == {{}, 1..n, 3..n}
ConcTempBadSets(n) == {{}, 1..n, {n}}

\* the other spectra of a two-dimensional obsspec: all good or all bad
RECURSIVE OtherCols(_, _)
OtherCols(k, n) ==
    IF k = 0 THEN {<<>>}
    ELSE {<<Pixels(ObsGood, b, n)>> \o t : b \in {{}, 1..n}, t \in OtherCols(k - 1, n)}

\* obsspec with its first spectrum given: one-dimensional, or
\* two-dimensional with 1..MaxSpec spectra
Shapes(col, n) ==
    {Array1D(col)} \cup
    {Array2D(<<col>> \o t) : t \in UNION {OtherCols(k, n) : k \in 0..(MaxSpec - 1)}}
ErrLike(a, e) == [a EXCEPT !.cols = [k \in 1..Len(a.cols) |-> e]]

Off == [ndim |-> 0, cols |-> <<>>]
Builds == {"py2", "py3"}

CorrIdle ==
    /\ cx = <<>> /\ cy = <<>> /\ clag = <<>>
    /\ cpc = "idle"
    /\ cres = [kind |-> "none"]

OrchIdle ==
    /\ build = "py2" /\ helpers = FALSE
    /\ tempspec = <<>> /\ tempspec0 = <<>>
    /\ fn = [w \in Workers |-> "off"]
    /\ maxlag = [w \in Workers |-> 0]
    /\ nofit = [w \in Workers |-> TRUE]
    /\ obsspec = [w \in Workers |-> Off] /\ obsspec0 = obsspec
    /\ obserr = [w \in Workers |-> Off] /\ obserr0 = obserr
    /\ outstrArg = [w \in Workers |-> Zero]
    /\ pc = [w \in Workers |-> "off"]
    /\ loc = [w \in Workers |-> LocInit]
    /\ result = [w \in Workers |-> [kind |-> "none"]]
    /\ writers = {}
    /\ dirty = [w \in Workers |-> FALSE]

\* the call of one invocation: specxcorr(wave, tempspec, obsspec, obserr,
\* maxlag) or apxcorr(wave, tempspec, obsspec, obserr, outstr, maxlag=[m],
\* nofit=nofit); specxcorr has no nofit
Calls(obsSets, errSets) ==
    {[fn |-> f, maxlag |-> m, nofit |-> nf, obsspec |-> a, obserr |-> ErrLike(a, e)] :
        f \in {"specxcorr", "apxcorr"}, m \in {1, MaxLag}, nf \in BOOLEAN,
        a \in UNION {Shapes(Pixels(ObsGood, b, NPix), NPix) : b \in obsSets},
        e \in {Pixels(ErrGood, b, NPix) : b \in errSets}}
NoCall == [fn |-> "off", maxlag |-> 0, nofit |-> TRUE, obsspec |-> Off, obserr |-> Off]
HasItsArguments(c) == c.fn = "apxcorr" \/ c.nofit

InitCalls(call) ==
    /\ fn = [w \in Workers |-> call[w].fn]
    /\ maxlag = [w \in Workers |-> call[w].maxlag]
    /\ nofit = [w \in Workers |-> call[w].nofit]
    /\ obsspec = [w \in Workers |-> call[w].obsspec] /\ obsspec0 = obsspec
    /\ obserr = [w \in Workers |-> call[w].obserr] /\ obserr0 = obserr
    /\ outstrArg = [w \in Workers |-> InitOutstr]
    /\ pc = [w \in Workers |-> IF call[w].fn = "off" THEN "off" ELSE "start"]
    /\ loc = [w \in Workers |-> LocInit]
    /\ result = [w \in Workers |-> [kind |-> "none"]]
    /\ writers = {}
    /\ dirty = [w \in Workers |-> FALSE]
    /\ NormIdle
    /\ VelIdle
    /\ FitIdle

\* one invocation
Init ==
    /\ CorrIdle
    /\ build \in Builds /\ helpers \in BOOLEAN
    /\ tempspec \in {Pixels(TempGood, b, NPix) : b \in BadSets(NPix)}
    /\ tempspec0 = tempspec
    /\ \E c \in {d \in Calls(BadSets(NPix), FewBadSets(NPix)) : HasItsArguments(d)} :
         InitCalls([w \in Workers |-> IF w = 1 THEN c ELSE NoCall])

Spec == Init /\ [][Next]_vars

\* two invocations on one template array, their steps interleaved
ConcCalls ==
    {c \in Calls(ConcBadSets(NPix), {{}}) :
        /\ HasItsArguments(c)
        /\ c.obsspec.ndim = (IF c.fn = "apxcorr" THEN 2 ELSE 1)
        /\ Len(c.obsspec.cols) = 1}

InitConc ==
    /\ CorrIdle
    /\ build \in Builds /\ helpers \in BOOLEAN
    /\ tempspec \in {Pixels(TempGood, b, NPix) : b \in ConcTempBadSets(NPix)}
    /\ tempspec0 = tempspec
    /\ \E c1 \in ConcCalls, c2 \in ConcCalls :
         InitCalls([w \in Workers |-> IF w = 1 THEN c1 ELSE c2])

SpecConc == InitConc /\ [][Next]_vars

\* one call of normspec
InitNorm ==
    /\ CorrIdle
    /\ OrchIdle
    /\ nin \in {c \in NormCalls : c.ndim = 2 \/ Len(c.rows) = 1}
    /\ npc = "start"
    /\ nloc = NLocInit
    /\ nres = [kind |-> "none"]
    /\ VelIdle
    /\ FitIdle

SpecNorm == InitNorm /\ [][NextNorm]_vars

\* one conversion of a fitted shift, by the block of either function
InitVel ==
    /\ CorrIdle
    /\ OrchIdle
    /\ NormIdle
    /\ vin \in VelCalls
    /\ vres = NoVelocity
    /\ FitIdle

SpecVel == InitVel /\ [][NextVel]_vars

\* one fit of a correlation peak
InitFit ==
    /\ CorrIdle
    /\ OrchIdle
    /\ NormIdle
    /\ VelIdle
    /\ fin \in {c \in FitCalls : c.bi < NLag(c.m)}
    /\ fpc = "seed"
    /\ floc = FLocInit

SpecFit == InitFit /\ [][NextFit]_vars

\* a statement that can run does run
SpecFitLive == SpecFit /\ WF_vars(NextFit)

---------------------------------------------------------------------------
(* The calls of ccorrelate that are checked *)

\* the example of the docstring (rv.py 522-536), in hundredths
DocX == <<373, 367, 377, 383, 467, 587, 670, 697, 640, 557>>
DocY == <<231, 276, 302, 313, 372, 388, 397, 439, 434, 395>>
DocLag == <<-5, 0, 1, 5, 6, 7>>
DocResult == <<-428, 915, 675, -405, -403, -340>>
AsArray(s) == [i \in 1..Len(s) |-> Fin(s[i])]

\* the lags of a call on arrays of length n: one lag, or two different ones
LagLists(n) ==
    LET L == IF n = 0 THEN {0} ELSE (1 - n)..(n - 1)
    IN {<<l>> : l \in L} \cup {<<p[1], p[2]>> : p \in {q \in L \X L : q[1] # q[2]}}

InitCorr ==
    /\ \/ \E x \in SeqsUpTo(Elem, MaxLen), y \in SeqsUpTo(Elem, MaxLen) :
            \E lag \in LagLists(Len(x)) :
                cx = x /\ cy = y /\ clag = lag
       \/ cx = AsArray(DocX) /\ cy = AsArray(DocY) /\ clag = DocLag
    /\ cpc = "call"
    /\ cres = [kind |-> "none"]
    /\ OrchIdle
    /\ NormIdle
    /\ VelIdle
    /\ FitIdle

\* result = ccorrelate(x, y, lag)
CcorrelateCall ==
    /\ cpc = "call"
    /\ cres' = ccorrelate(cx, cy, clag)
    /\ cpc' = "done"
    /\ UNCHANGED <<cx, cy, clag, orchVars, normVars, velVars, fitVars>>

NextCorr == CcorrelateCall

SpecCorr == InitCorr /\ [][NextCorr]_vars

---------------------------------------------------------------------------
(* Claims about ccorrelate, checked under SpecCorr *)

CallDone == cpc = "done"
AllFinite(x) == \A i \in 1..Len(x) : x[i].fin
NoneFinite(x) == \A i \in 1..Len(x) : ~x[i].fin
IsConstant(x) == \A i \in 1..Len(x) : x[i] = x[1]
IsDocCall == cx = AsArray(DocX) /\ cy = AsArray(DocY) /\ clag = DocLag
IsSelfCall == cx = cy /\ AllFinite(cx) /\ Len(cx) >= 2 /\ clag = <<0>>

\* C1: for the x, y and lags of the docstring example, ccorrelate returns,
\* to three decimals, -0.428, 0.915, 0.675, -0.405, -0.403, -0.340.
C1_DocExample ==
    (CallDone /\ IsDocCall) =>
        /\ cres.kind = "ok"
        /\ \A k \in 1..Len(DocLag) : ValRounds3(cres.cross[k], DocResult[k])

C3_RoleSwap ==
    (CallDone /\ Len(cx) = Len(cy) /\ Len(clag) = 1) =>
        LET swapped == ccorrelate(cy, cx, <<0 - clag[1]>>)
        IN /\ swapped.kind = cres.kind
           /\ cres.kind = "ok" => ValEq(cres.cross[1], swapped.cross[1])

C3_Witness ==
    /\ CallDone /\ Len(clag) = 1 /\ clag[1] < 0 /\ cres.kind = "ok"
    /\ ~AllFinite(cx) /\ ~ValIsZero(cres.cross[1])
    /\ cx # cy

\* C4: ccorrelate ends in an error, with no correlation array, whenever
\* len(x) != len(y) or len(x) < 2, and in neither of these errors otherwise.
C4_InputShapeErrors ==
    CallDone =>
        IF Len(cx) # Len(cy) \/ Len(cx) < 2
        THEN /\ cres.kind = "error" /\ cres.type = "ValueError"
             /\ "cross" \notin DOMAIN cres
        ELSE cres.kind = "ok" /\ Len(cres.cross) = Len(clag)

C4_Witness ==
    /\ CallDone /\ cres.kind = "error"
    /\ Len(cx) = Len(cy) /\ Len(cx) = 1

---------------------------------------------------------------------------
(* Claims about specxcorr and apxcorr, checked under Spec and SpecConc *)

Done(w) == pc[w] = "done"
FitFailed(w) == loc[w].solver # "none"
NoBadPixel(a) == \A i \in 1..Len(a) : ~BelowFloor(a[i]) /\ a[i].fin
AllBadPixels(a) == \A i \in 1..Len(a) : BelowFloor(a[i]) \/ ~a[i].fin
IsInsufficientData(r) ==
    /\ r.kind = "error"
    /\ r.type = "Exception"
    /\ r.msg \in {"Bad spectrum", "No good cross-correlation"}

\* C5: a spectrum whose pixels are all bad makes the orchestrator end in an
\* insufficient-data error and never in a returned record, and ccorrelate
\* called with an all-non-finite y does not return an array.
C5_AllBadIsInsufficientData ==
    /\ (CallDone /\ Len(cx) = Len(cy) /\ Len(cy) >= 2 /\ NoneFinite(cy)) =>
            cres.kind = "error"
    /\ \A w \in Workers :
        (Done(w) /\ AllBadPixels(obsspec0[w].cols[1])) =>
            IsInsufficientData(result[w])

\* C6: when the solver does not converge at pass k, the invocation ends in a
\* FitFailure error that carries the pass index k and the solver's status.
C6_FitFailureNamesPass ==
    \A w \in Workers :
        (Done(w) /\ loc[w].solver = "not converged") =>
            /\ result[w].kind = "error"
            /\ result[w].type = "FitFailure"
            /\ "pass" \in DOMAIN result[w]
            /\ "status" \in DOMAIN result[w]
            /\ result[w].pass = loc[w].fitpass

C10_OneRecordPerSpectrum ==
    \A w \in Workers :
        ( /\ Done(w)
          /\ obsspec0[w].ndim = 2
          /\ \A k \in 1..Len(obsspec0[w].cols) :
                NoBadPixel(obsspec0[w].cols[k]) /\ NoBadPixel(obserr0[w].cols[k])
          /\ NoBadPixel(tempspec0)
          /\ ~FitFailed(w) ) =>
            /\ result[w].kind = "ok"
            /\ Len(result[w].records) = Len(obsspec0[w].cols)

---------------------------------------------------------------------------
(* Claims about normspec, checked under SpecNorm, and further claims       *)
(* about the orchestrators                                                 *)

NormDone == npc = "done"
NotEnoughBins(r) ==
    /\ r.kind = "error"
    /\ r.msg = "Not enough good flux points to fit the continuum"

\* C11: in a batch of several spectra an insufficient-data error for one
\* spectrum leaves the others their results: the outcome of normspec on a
\* two-dimensional flux holds the normalized rows other than the failing one,
\* and the outcome of an orchestrator on several spectra holds their records.
C11_BatchIsolation ==
    /\ (NormDone /\ nin.ndim = 2 /\ Len(nin.rows) >= 2 /\ NotEnoughBins(nres)) =>
            /\ "nspec" \in DOMAIN nres
            /\ \A r \in (1..Len(nin.rows)) \ {nloc.i} : r \in DOMAIN nres.nspec
    /\ \A w \in Workers :
        (Done(w) /\ Len(obsspec0[w].cols) >= 2 /\ IsInsufficientData(result[w])) =>
            "records" \in DOMAIN result[w]

\* the record of the invocation exists and no fit has completed
HasRecord(w) == fn[w] = "specxcorr" /\ pc[w] \notin {"off", "start"}
FitCompleted(w) == pc[w] = "done" /\ result[w].kind = "ok"
FitFields == {"xshifterr", "vrelerr", "ccp_perror", "xshift", "vrel", "chisq"}

\* C12: before a peak fit has completed, xshifterr, vrelerr, ccp_perror,
\* xshift, vrel and chisq of the output record all hold NaN, never 0 or
\* another number.
C12_NaNUntilFit ==
    \A w \in Workers :
        (HasRecord(w) /\ ~FitCompleted(w)) =>
            \A f \in FitFields : loc[w].outstr[f].t = "nan"

\* the lags -m, ..., 0, ..., +m, doubled as the lag axes of the model are
SymmetricLags2(m) == [k \in 1..(2 * m + 1) |-> 2 * (k - 1 - m)]

\* C13: for every max_lag m >= 1 the lag axis an orchestrator builds is the
\* 2m+1 consecutive integers -m, ..., +m, under Python 2 and under Python 3.
C13_LagAxisSymmetric ==
    \A w \in Workers :
        loc[w].lag2 # <<>> => loc[w].lag2 = SymmetricLags2(maxlag[w])

\* the numbers of bins with a finite percentile in the row normspec is at:
\* the unmasked segments at the first pass; at the second pass the same
\* ones, or none when the first continuum is zero
FiniteBins1 == Cardinality({s \in 1..NormBins : nin.rows[nloc.i][s].mask = 0})
FiniteBins2 ==
    IF nloc.cont1.kind = "num" /\ nloc.cont1.n = 0 THEN 0 ELSE FiniteBins1
TooFewBins ==
    \/ FiniteBins1 < nin.ncorder + 1
    \/ nloc.cont1.kind # "none" /\ FiniteBins2 < nin.ncorder + 1

\* C14: normspec raises 'Not enough good flux points' and returns nothing
\* whenever fewer than ncorder+1 bins have a finite percentile at the first
\* or at the second pass, and does not raise it, nor reach the end of a row,
\* otherwise.
C14_RaisesIffTooFewBins ==
    /\ NormDone =>
          /\ NotEnoughBins(nres) <=> TooFewBins
          /\ NotEnoughBins(nres) => "nspec" \notin DOMAIN nres
          /\ nres.kind = "ok" => ~TooFewBins
    /\ npc = "finish" => ~TooFewBins
    /\ (npc = "pass2" /\ nloc.ngdbin2 >= 0) => ~TooFewBins
    /\ (npc = "pass1" /\ nloc.ngdbin >= 0) => FiniteBins1 >= nin.ncorder + 1

\* the second pass had too few finite bins although the first had enough:
\* the first continuum was zero
C14_Witness ==
    /\ NormDone /\ NotEnoughBins(nres)
    /\ nloc.raisedAt = "pass2"
    /\ FiniteBins1 >= nin.ncorder + 1

NormReturned == NormDone /\ nres.kind = "ok"
RowsOf == 1..Len(nin.rows)
\* the value is 1, where the model knows the value
IsOneIfKnown(q) == q.kind # "poly" => (q.kind = "num" /\ q.n = q.d)

\* C15: with fixbadpix, at every invalid pixel the returned flux is the
\* continuum, so that nspec is 1 there, and masked is True; at every valid
\* pixel masked is False; without fixbadpix masked is False everywhere.
C15_BadPixelsFixed ==
    NormReturned =>
        \A r \in RowsOf : \A s \in 1..NormBins :
            LET invalid == nin.rows[r][s].mask # 0
            IN IF nin.fixbadpix
               THEN /\ invalid => (IsOneIfKnown(nres.nspec[r][s]) /\ nres.masked[r][s])
                    /\ ~invalid => ~nres.masked[r][s]
               ELSE ~nres.masked[r][s]

\* C16 as claimed: for a constant positive flux K without masked pixels,
\* normspec returns 1 at every pixel and the continuum K, with the error
\* correction on or off.
IsConstantSpectrum(row) ==
    \A s \in 1..NormBins : row[s].mask = 0 /\ row[s].flux > 0 /\ row[s].flux = row[1].flux
C16_ConstantFluxIsOne ==
    NormReturned =>
        \A r \in RowsOf :
            IsConstantSpectrum(nin.rows[r]) =>
                /\ \A s \in 1..NormBins : NumEq(nres.nspec[r][s], Num(1, 1))
                /\ NumEq(nres.cont[r], Num(nin.rows[r][1].flux, 1))

\* C16 as amended: the same when the error correction is off or the median
\* of the smoothed errors is 0; with the correction on and that median m > 0
\* the continuum is K - m and the normalized flux K / (K - m) (K = 2m makes
\* the second pass raise, K = m makes the result non-finite).
C16_ConstantFlux ==
    NormReturned =>
        \A r \in RowsOf :
            IsConstantSpectrum(nin.rows[r]) =>
                LET K == nin.rows[r][1].flux
                    m == IF nin.noerrcorr THEN 0 ELSE MedYerr(nin.err)
                IN IF K = m
                   THEN \A s \in 1..NormBins : nres.nspec[r][s] = NonFinite
                   ELSE /\ K # 2 * m
                        /\ \A s \in 1..NormBins : NumEq(nres.nspec[r][s], Num(K, K - m))
                        /\ NumEq(nres.cont[r], Num(K - m, 1))

\* a constant spectrum normalized with the correction on and errors above 0,
\* and one normalized to exactly 1
C16_Witness ==
    /\ NormReturned
    /\ IsConstantSpectrum(nin.rows[1])
    /\ ~nin.noerrcorr /\ nin.err > 0
    /\ ~NumEq(nres.nspec[1][1], Num(1, 1))

---------------------------------------------------------------------------
(* C17, C18: the velocity and its uncertainty *)

VelDone(f) == vres[f] # NoValue

\* |ln(10) * 10^(shift*dwlog) * dwlog * c| * shift_error, shift_error being
\* the one-sigma uncertainty of the shift, the root of its variance cov11
ClaimedVrelerr(in) ==
    LET dwlog == Dwlog(in.wave)
    IN  Mono(QMul(QAbs(dwlog), SqrtQ(in.cov11)), 1, 1, QMul(in.xshift, dwlog))

\* C17: the velocity uncertainty that specxcorr and apxcorr set is
\* |ln(10) * 10^(shift*dwlog) * dwlog * c| * shift_error with the one-sigma
\* shift_error: it is not negative whatever the sign of dwlog, it has the
\* factor ln(10), and it is the same value from both functions for the same
\* shift, covariance and wavelength grid.
C17_VelocityUncertainty ==
    /\ \A f \in {"sx", "ax"} :
          VelDone(f) =>
              /\ vres[f].vrelerr = ClaimedVrelerr(vin)
              /\ NonNegative(vres[f].vrelerr)
    /\ (VelDone("sx") /\ VelDone("ax")) => vres.sx.vrelerr = vres.ax.vrelerr

\* C18: for a fitted shift of exactly 0 the velocity (10^(shift*dwlog) - 1) * c
\* is exactly 0, whatever the covariance of the fit and the wavelength grid.
C18_ZeroShiftZeroVelocity ==
    \A f \in {"sx", "ax"} : (VelDone(f) /\ vin.xshift.n = 0) => vres[f].vrel = {}

\* specxcorr has converted a zero shift on a grid with a non-zero step,
\* with a non-zero shift variance
C18_Witness ==
    /\ VelDone("sx")
    /\ vin.xshift.n = 0
    /\ Dwlog(vin.wave).n < 0
    /\ vin.cov11.n # 0
    /\ vres.sx.vrel = {}
    /\ vres.sx.vrelerr # {}

---------------------------------------------------------------------------
(* C19: the decisions on the sufficiency of the data *)

CountFinite(a) == Cardinality(FiniteIdx(a))
BadSpectrum(r) == r.kind = "error" /\ r.msg = "Bad spectrum"
JointlyValid(w) ==
    Cardinality(GoodPix(loc[w].spec.cols[1], loc[w].template, loc[w].err.cols[1]))

\* C19: the orchestrator decides by the NUMBER of valid pixels: it leaves
\* the correlation path only when the masked spectrum or the masked
\* template has no finite sample, and it raises 'Bad spectrum' exactly when
\* no pixel is jointly valid, also when the only valid pixel is index 0.
C19_SufficiencyByCount ==
    \A w \in Workers :
        /\ (fn[w] = "specxcorr" /\ pc[w] = "sx_nogood") =>
               \/ CountFinite(loc[w].spec.cols[1]) = 0
               \/ CountFinite(loc[w].template) = 0
        /\ (fn[w] = "specxcorr" /\ pc[w] = "sx_corr") =>
               /\ CountFinite(loc[w].spec.cols[1]) >= 1
               /\ CountFinite(loc[w].template) >= 1
        /\ (fn[w] = "apxcorr" /\ pc[w] = "ax_nogood") =>
               \/ CountFinite(obsspec[w].cols[1]) = 0
               \/ CountFinite(tempspec) = 0
        /\ (fn[w] = "specxcorr" /\ BadSpectrum(result[w])) => JointlyValid(w) = 0
        /\ (fn[w] = "specxcorr" /\ pc[w] = "sx_fit") => JointlyValid(w) >= 1

---------------------------------------------------------------------------
(* C20: the arrays of the correlation *)

\* the correlation of the floor-masked copies of template and spectrum
MaskedCorrelation(w) ==
    CcorrelateAt(loc[w].template, loc[w].spec.cols[1], loc[w].lag2)

\* C20: the correlation function that specxcorr obtains is that of the
\* floor-masked copies of the template and of the observed spectrum: a pixel
\* below the floor 0.01 of either array enters no lag's sums and counts.
C20_FloorMaskedCorrelation ==
    \A w \in Workers :
        (fn[w] = "specxcorr" /\ pc[w] = "sx_best") =>
            /\ MaskedCorrelation(w).kind = "ok"
            /\ \A k \in 1..Len(loc[w].ccf) :
                  ValEq(loc[w].ccf[k], MaskedCorrelation(w).cross[k])

---------------------------------------------------------------------------
(* C21: the chi-square of the record *)

ChisqStored(w) ==
    /\ fn[w] = "specxcorr"
    /\ "chisq" \in DOMAIN loc[w].outstr
    /\ loc[w].outstr.chisq \notin {Zero, NaNField}
\* the pixels that are valid in the spectrum and in the shifted template
ShiftedGoodPix(w) == GoodPix(loc[w].spec.cols[1], loc[w].temp, loc[w].err.cols[1])
\* the chi-square against the shifted template, over those pixels and
\* normalized by their number
ShiftedChisq(w) ==
    ChisqOf(loc[w].spec.cols[1], loc[w].temp, loc[w].err.cols[1],
            ShiftedGoodPix(w), Cardinality(ShiftedGoodPix(w)))
SameRatio(a, b) == a.n * b.d = b.n * a.d

\* C21: the chi-square stored in the record is that of the observed spectrum
\* against the template rolled by the lag of the correlation maximum, over
\* the jointly valid pixels and divided by the number of those pixels.
C21_ChisqOfShiftedTemplate ==
    \A w \in Workers :
        ChisqStored(w) =>
            /\ ShiftedGoodPix(w) # {}
            /\ SameRatio(loc[w].outstr.chisq.x, ShiftedChisq(w))

---------------------------------------------------------------------------
(* C22: the invalid pixels of normspec *)

\* normspec has set the working flux of the row it is at
WorkingFluxSet == npc \in {"pass1", "fit1", "pass2", "fit2", "finish"}

\* C22: the pixels whose working flux is NaN are exactly those with a
\* non-positive flux or a non-zero mask value; a pixel with flux <= 0 and
\* mask 0 is one of them, and its bin has no finite percentile.
C22_InvalidIffFluxOrMask ==
    WorkingFluxSet =>
        LET row == nin.rows[nloc.i]
        IN  /\ {s \in 1..Len(row) : ~nloc.ytemp[s].fin} = (1..Len(row)) \ GdMaskFluxOrMask(row)
            /\ GdBin(nloc.ytemp) = GdMaskFluxOrMask(row)

---------------------------------------------------------------------------
(* C30: the lags of one call *)

\* C30: the value ccorrelate returns for a lag does not depend on the other
\* lags of the list: each entry of the result equals the entry that the
\* call with that lag alone returns for the same x and y.
C30_LagListIndependence ==
    (CallDone /\ cres.kind = "ok") =>
        \A k \in 1..Len(clag) :
            ValEq(cres.cross[k], ccorrelate(cx, cy, <<clag[k]>>).cross[1])

---------------------------------------------------------------------------
(* C23..C29: the fit of the correlation peak *)

FitTerminal == fpc \in {"done", "failed"}
FitSucceeded == fpc = "done" /\ floc.result.kind = "ok"
FitRaised == fpc = "failed" /\ floc.result.kind = "error"
\* the components of the seed of a pass that are not estimated anew: all
\* but the centre in pass 1, all but the constant in passes 2 and 3, all in
\* the safeguard
KeptOfPrevious(k) ==
    IF k = 1 THEN {1, 3, 4} ELSE IF k = SafeguardPass THEN 1..4 ELSE {1, 2, 3}
PassesInOrder ==
    /\ Len(floc.runs) <= SafeguardPass + 1
    /\ \A i \in 1..Len(floc.runs) :
          /\ floc.runs[i].pass = i - 1
          /\ i >= 2 => \A j \in KeptOfPrevious(i - 1) :
                           floc.runs[i].seed[j] = floc.ret[IF i - 2 > LastPass THEN LastPass
                                                             ELSE i - 2][j]
    /\ fpc = "done" => FitSucceeded /\ Len(floc.runs) >= LastPass + 1
    /\ fpc = "failed" => FitRaised

\* C23: the fitter runs the passes 0, 1, 2, 3 in this order, each once and
\* each seeded from the result of the one before, then at most one safeguard
\* pass; it always ends, with the parameters and errors or with an
\* exception, and after an exception no pass runs.
C23_PassesInOrderAndTerminate ==
    /\ []PassesInOrder
    /\ [][FitTerminal => UNCHANGED <<fpc, floc>>]_vars
    /\ (fpc = "seed") ~> FitTerminal

\* all five fits have run and the fitter has returned
C23_Witness == FitSucceeded /\ Len(floc.runs) = SafeguardPass + 1

\* the safeguard has been called, or passed over
SafeguardCalled == \E i \in 1..Len(floc.runs) : floc.runs[i].pass = SafeguardPass
SafeguardSkipped == fpc \in {"final", "done"} /\ ~SafeguardCalled
\* the uncertainty (the root of the variance) of the centre or of the width
\* exceeds 10
WidthOrCentreAbove10(cov) ==
    QLess(QInt(10 * 10), cov[2]) \/ QLess(QInt(10 * 10), cov[3])

\* C24: the safeguard refit runs exactly when the uncertainty of the centre
\* or that of the width of pass 3 exceeds 10; the uncertainty of the
\* amplitude has no part in it; the errors returned after it are its own.
C24_SafeguardIffCentreOrWidth ==
    /\ SafeguardCalled => WidthOrCentreAbove10(floc.covs[1])
    /\ SafeguardSkipped => ~WidthOrCentreAbove10(floc.covs[1])
    /\ (FitSucceeded /\ SafeguardCalled) => floc.result.perror = floc.covs[2]

\* C25: every call of the fitter, at every pass of either function, fits
\* the pixel-integrated Gaussian gaussbin; none fits the point-sampled
\* gaussian.
C25_EveryFitBinned ==
    \A i \in 1..Len(floc.runs) : floc.runs[i].func = "gaussbin"

\* the calls of gaussfit of pass k that have been made
RunsOf(k) == {i \in 1..Len(floc.runs) : floc.runs[i].pass = k}
\* the lags (0-based indices) within ceil(max(2 sig0, 5)) of the peak on
\* either side, clipped to the axis
SymmetricWindow(bi, sig0, nlag) ==
    LET k == QCeil(HalfWidth(sig0))
    IN {j \in 0..(nlag - 1) : bi - k <= j /\ j <= bi + k}
WindowOfRun(r) == Slice(r.lo, r.hi, NLagOf(fin))
Pass1Window ==
    \A i \in RunsOf(1) :
        WindowOfRun(floc.runs[i]) = SymmetricWindow(fin.bi, floc.ret[0][3], NLagOf(fin))
Pass1Bounds ==
    \A i \in RunsOf(1) :
        LET r == floc.runs[i]
            bx == LagAt(fin.m, fin.bi)
            sig0 == floc.ret[0][3]
        IN /\ r.lb[2] = QSub(bx, QInt(4)) /\ r.ub[2] = QAdd(bx, QInt(4))
           /\ r.lb[3] = QMul(Q(3, 10), sig0) /\ r.ub[3] = QMul(Q(3, 2), sig0)

\* C26: pass 1 fits the lags whose index is within k = max(2 sigma0, 5),
\* rounded outward, of the peak on both sides, clipped to the axis; its
\* centre is bounded by peak - 4 and peak + 4 and its width by 0.3 sigma0
\* and 1.5 sigma0.
C26_Pass1SymmetricWindow == Pass1Window /\ Pass1Bounds

\* a value within the lag axis [min(lag), max(lag)]
WithinAxis(v) == ~ExtLess(v, MinLag(fin.m)) /\ ~ExtLess(MaxLagOf(fin.m), v)
CentreLowerWithinAxis == \A i \in RunsOf(2) \cup RunsOf(3) : WithinAxis(floc.runs[i].lb[2])
CentreUpperWithinAxis == \A i \in RunsOf(2) \cup RunsOf(3) : WithinAxis(floc.runs[i].ub[2])

\* C27: in passes 2 and 3 the lower and the upper bound of the centre both
\* lie within [min(lag), max(lag)].
C27_CentreBoundsWithinAxis == CentreLowerWithinAxis /\ CentreUpperWithinAxis

\* the calls of pass k were given ordered bounds and a seed within them
FeasibleAt(k) == \A i \in RunsOf(k) : Feasible(floc.runs[i])

\* C28: at every pass, the safeguard included, the fitter is called with a
\* lower bound strictly below the upper bound for every parameter and with
\* a seed that lies within the bounds.
C28_BoxWellFormedSeedFeasible == \A k \in 0..SafeguardPass : FeasibleAt(k)

\* the array pars_k holds what the solver returned for pass k
ParsKept(k) == floc.ret[k] # NoValue => floc.pars[k] = floc.ret[k]
\* the constant that seeds pass 3 is the median residual added to the
\* constant that pass 1 returned
Pass3ConstFromReturned ==
    \A i \in RunsOf(LastPass) : floc.runs[i].seed[4] = QAdd(fin.med, floc.ret[1][4])

\* C29: the parameters a pass returned are not modified by the steps after
\* it: pars0..pars3 stay what the solver returned, and the constant that
\* seeds pass 3 is computed from the pars1[3] that pass 1 returned.
C29_ReturnedParsUnmodified ==
    /\ \A k \in 0..LastPass : ParsKept(k)
    /\ Pass3ConstFromReturned

====
